---- MODULE Spec2Model ----
(***************************************************************************)
(* Model of the WebSocket connection pool (src/unnamed/part_003, the file  *)
(* src/lib/websocket-pool.js) and of the pooled chat-completion route      *)
(* (src/unnamed/part_000, lines 1178-1795) that borrows connections from   *)
(* it and translates bus frames into a completion response.                *)
(*                                                                         *)
(* One identity (userId) is modelled: the pool keeps all its state per     *)
(* userId and no operation touches two identities, except the sweep that   *)
(* visits them one after the other.                                        *)
(*                                                                         *)
(* Node.js runs every handler to completion, so each handler is one        *)
(* action.  Timers and I/O completions fire at any time once armed.        *)
(***************************************************************************)
EXTENDS Integers, Sequences, FiniteSets, TLC

\* ---------------------------------------------------------------- bounds
MaxReqs == 3          \* requests started in one behaviour
MaxConns == 2         \* WebSocket objects created in one behaviour
MaxFrames == 2        \* bus frames delivered in one behaviour
MaxFaults == 2        \* timer expiries, socket failures, sweeps and failed calls in one behaviour
maxConnections == 1   \* per-identity cap (10 in the singleton), scaled down
MaxPools == MaxConns + 1   \* user-pool objects alive at once

OverusedLimit == 1    \* cleanup: requestCount > 100, scaled down

ReqIds == 1..MaxReqs
ConnIds == 1..MaxConns
PoolIds == 1..MaxPools

VARIABLES
  userPools,   \* this.userPools.get(userId): a pool id, 0 when absent
  pools,       \* the user-pool objects: connections, queue, activeCount
  conns,       \* the WebSocket objects created by createConnection
  nextConn,    \* number of WebSocket objects created so far
  reqs,        \* per request: the route handler's closure state and res
  nextReq,     \* number of requests started so far
  nframes,     \* number of frames delivered so far
  nfaults,     \* number of timer expiries, failures and sweeps so far
  route,       \* which version of the chat route is mounted
  delivered,   \* whose frame the last step delivered to the listeners
  tr,          \* translator state of the delta specification
  cumul,       \* per kind, the last cumulative text fed to the translator
  deltas,      \* per kind, the concatenation of the deltas it computed
  nfed,        \* number of update frames fed
  extends,     \* every text fed so far began with its predecessor
  emitted,     \* the outputs computed so far, every character with its kind
  heard,       \* the cumulative texts request 1 received before its completion
  cp,          \* the control-plane calls of one request: getChatID, sentRequest
  np,          \* processParameters: a body, its result, the result's result
  modelMap,    \* require('../lib/model-map'): per model its parameters object
  pb           \* the last payload built and the request body it was built from

vars == <<userPools, pools, conns, nextConn, reqs, nextReq, nframes, nfaults,
          route, delivered,
          tr, cumul, deltas, nfed, extends, emitted, heard,
          cp, np, modelMap, pb>>
poolVars == <<userPools, pools, conns, nextConn, reqs, nextReq, nframes, nfaults,
             route, delivered>>
deltaVars == <<tr, cumul, deltas, nfed, extends, emitted, heard>>
retryVars == <<cp>>
paramVars == <<np, modelMap, pb>>
otherVars == <<deltaVars, retryVars, paramVars>>

\* correlation ids of frames that belong to no job
Malformed == -1       \* a frame that is empty, unparsable or without data
NoId == 0             \* a frame without individual_run_request_id
\* values of `delivered` besides the id of a request listening on the socket
NoFrame == -2         \* the last step delivered no frame
Foreign == -3         \* a frame that is no listening request's: malformed,
                      \* without id, or of a job whose request is not listening

\* ------------------------------------------------------- JavaScript strings
\* A string is a sequence of characters; the markers "<think>\n\n" and
\* "\n\n</think>" are kept as single tokens.
OpenMarker == "<think>"
CloseMarker == "</think>"

\* String.prototype.indexOf(p): first position (0-based) of p in s, or -1
IndexOf(s, p) ==
  LET hits == {i \in 0..(Len(s) - Len(p)) : SubSeq(s, i + 1, i + Len(p)) = p}
  IN IF hits = {} THEN -1 ELSE CHOOSE i \in hits : \A j \in hits : i <= j

\* s.replace(p, ""): with a string pattern only the first occurrence goes
ReplaceFirst(s, p) ==
  LET i == IndexOf(s, p)
  IN IF i = -1 THEN s
     ELSE SubSeq(s, 1, i) \o SubSeq(s, i + Len(p) + 1, Len(s))

\* ------------------------------------------------------------ pool objects
EmptyPool == [connections |-> <<>>, queue |-> <<>>, activeCount |-> 0]

NoConn == [readyState |-> "NONE", isInUse |-> FALSE, requestCount |-> 0,
           pool |-> 0, creator |-> 0]

SeqToSet(s) == {s[i] : i \in 1..Len(s)}
Without(s, x) == SelectSeq(s, LAMBDA y : y # x)

\* a pool object no closure refers to any more can be reused for a new Map entry
PoolReferenced(st, p) ==
  \/ st.userPools = p
  \/ \E c \in ConnIds : st.conns[c].pool = p
                        /\ st.conns[c].readyState \in {"CONNECTING", "OPEN", "CLOSING"}
FreePool(st) == CHOOSE p \in PoolIds :
                  /\ ~PoolReferenced(st, p)
                  /\ \A q \in PoolIds : ~PoolReferenced(st, q) => p <= q

\* getUserPool(userId): creates the entry when absent
getUserPool(st) ==
  IF st.userPools # 0 THEN st
  ELSE LET p == FreePool(st)
       IN [st EXCEPT !.userPools = p, !.pools[p] = EmptyPool]

\* findAvailableConnection without the isInUse test
findAvailableConnectionAnyOpen(st, p) ==
  LET cs == st.pools[p].connections
      ok == {i \in 1..Len(cs) : st.conns[cs[i]].readyState = "OPEN"}
  IN IF ok = {} THEN 0 ELSE cs[CHOOSE i \in ok : \A j \in ok : i <= j]

\* findAvailableConnection(userPool): first OPEN connection not in use, or 0
findAvailableConnection(st, p) ==
  LET cs == st.pools[p].connections
      ok == {i \in 1..Len(cs) : st.conns[cs[i]].readyState = "OPEN"
                                 /\ ~st.conns[cs[i]].isInUse}
  IN IF ok = {} THEN 0 ELSE cs[CHOOSE i \in ok : \A j \in ok : i <= j]

\* removeConnection without the connections.has(connectionId) test
removeConnectionUnchecked(st, c, p) ==
  [st EXCEPT !.pools[p].connections = Without(@, c),
             !.pools[p].activeCount = @ - 1]

\* removeConnection(connectionId, userPool)
removeConnection(st, c, p) ==
  IF c \in SeqToSet(st.pools[p].connections)
  THEN [st EXCEPT !.pools[p].connections = Without(@, c),
                  !.pools[p].activeCount = @ - 1]
  ELSE st

\* ------------------------------------------------------------ the response
\* res: what reached the caller.  A terminal token is a JSON body (final or
\* error) or the [DONE] sentinel; "END" is res.end().
NewReq == [pc |-> "new", stream |-> FALSE, chatID |-> FALSE, ws |-> 0,
           holds |-> 0, thrown |-> -1,
           qtimer |-> FALSE, qpool |-> 0, settles |-> 0, releases |-> 0,
           ThinkingLastContent |-> <<>>, TextLastContent |-> <<>>,
           ThinkingStart |-> FALSE, ThinkingEnd |-> FALSE,
           isCompleted |-> FALSE, msgL |-> FALSE, errL |-> FALSE,
           timer |-> FALSE, headersSent |-> FALSE, ended |-> FALSE,
           out |-> <<>>]

\* res.status(code).json(body): Express sets headers first and throws
\* ERR_HTTP_HEADERS_SENT when they are already sent; the wrapper installed at
\* part_000:1766-1770 clears the deadline timer before calling the original.
resJson(rq, tok) ==
  IF rq.headersSent THEN [rq EXCEPT !.timer = FALSE]
  ELSE [rq EXCEPT !.out = Append(@, tok), !.headersSent = TRUE,
                  !.ended = TRUE, !.timer = FALSE]

\* res.write(chunk): sends the headers with the first chunk
resWrite(rq, tok) ==
  IF rq.ended THEN rq
  ELSE [rq EXCEPT !.out = Append(@, tok), !.headersSent = TRUE]

\* res.end(), wrapped at part_000:1760-1764 to clear the deadline timer
resEnd(rq) ==
  [rq EXCEPT !.out = IF rq.ended THEN @ ELSE Append(@, [k |-> "END"]),
             !.headersSent = TRUE, !.ended = TRUE, !.timer = FALSE]

\* const statusCode = error.response?.status || 500; status 0 stands for an
\* error without response
statusCode(status) == IF status = 0 THEN 500 ELSE status

\* errorCode of handleError for an error without response data
errorCode(status) ==
  IF status = 429 THEN "rate_limit_exceeded" ELSE "server_error"

\* handleError(res, error, context) of the pooled route: always a JSON body
handleError(rq, status) ==
  resJson(rq, [k |-> "error", status |-> statusCode(status),
               code |-> errorCode(status)])

\* the fields of the error object a token carries: a JSON error body is
\* {error: {message, type, param: null, code}}, an in-band event of a
\* streaming response is data: {"error": {"message": ..., "type": ...}}
ErrorFields(tok) ==
  IF tok.k = "error" THEN {"message", "type", "param", "code"}
  ELSE IF tok.k = "inband" THEN {"message", "type"}
  ELSE {}

\* ------------------------------------------------- pool: acquire and release
\* the continuation of `ws = await wsPool.getConnection(...)` on resolve(ws)
resolveGet(st, r, c) ==
  IF st.reqs[r].pc \in {"queued", "connecting"}
  THEN [st EXCEPT !.reqs[r].pc = "chatid", !.reqs[r].ws = c,
                  !.reqs[r].holds = c, !.reqs[r].settles = @ + 1]
  ELSE [st EXCEPT !.reqs[r].settles = @ + 1]

\* ... and on reject(error): part_000:1523-1526
rejectGet(st, r) ==
  IF st.reqs[r].pc \in {"queued", "connecting"}
  THEN [st EXCEPT !.reqs[r] = [handleError(@, 0) EXCEPT !.pc = "done",
                                                       !.settles = @ + 1]]
  ELSE [st EXCEPT !.reqs[r].settles = @ + 1]

\* a hand-off that takes the newest queue entry (pop instead of shift)
releaseHandOffLast(st, c) ==
  LET p == st.userPools
      q == st.pools[p].queue
  IN IF Len(q) > 0
     THEN resolveGet([st EXCEPT !.pools[p].queue = SubSeq(q, 1, Len(q) - 1),
                                !.conns[c].isInUse = TRUE], q[Len(q)], c)
     ELSE st

\* the hand-off inside releaseConnection (part_003:135-140)
releaseHandOff(st, c) ==
  LET p == st.userPools
      q == st.pools[p].queue
  IN IF Len(q) > 0
     THEN resolveGet([st EXCEPT !.pools[p].queue = Tail(q),
                                !.conns[c].isInUse = TRUE], Head(q), c)
     ELSE st

\* releaseConnection that forgets ws.requestCount++
releaseConnectionNoCount(st, c) ==
  IF c # 0 /\ st.conns[c].readyState = "OPEN"
  THEN releaseHandOff(getUserPool([st EXCEPT !.conns[c].isInUse = FALSE]), c)
  ELSE st

\* releaseConnection(ws)
releaseConnection(st, c) ==
  IF c # 0 /\ st.conns[c].readyState = "OPEN"
  THEN releaseHandOff(
         getUserPool([st EXCEPT !.conns[c].isInUse = FALSE,
                                !.conns[c].requestCount = @ + 1]), c)
  ELSE st

\* wsPool.releaseConnection(ws) as called by request r
routeRelease(st, r) ==
  releaseConnection([st EXCEPT !.reqs[r].releases = @ + 1,
                               !.reqs[r].holds = 0], st.reqs[r].ws)

\* ------------------------------------------------------------------- state
State == [userPools |-> userPools, pools |-> pools, conns |-> conns,
          reqs |-> reqs]

Commit(st) ==
  /\ userPools' = st.userPools
  /\ pools' = st.pools
  /\ conns' = st.conns
  /\ reqs' = st.reqs

\* a failure event is counted against MaxFaults
Fault == nfaults < MaxFaults /\ nfaults' = nfaults + 1

PoolInit ==
  /\ userPools = 0
  /\ pools = [p \in PoolIds |-> EmptyPool]
  /\ conns = [c \in ConnIds |-> NoConn]
  /\ nextConn = 0
  /\ reqs = [r \in ReqIds |-> NewReq]
  /\ nextReq = 0
  /\ nframes = 0
  /\ nfaults = 0
  /\ route \in {"pooled", "fix"}
  /\ delivered = NoFrame

\* createConnection(userAccount, userPool): the new WebSocket, not yet open
createConnection(st, r, p, c) ==
  [st EXCEPT !.conns[c] = [readyState |-> "CONNECTING", isInUse |-> TRUE,
                           requestCount |-> 0, pool |-> p, creator |-> r],
             !.reqs[r].pc = "connecting"]

\* getConnection(userAccount, requestId), up to its first suspension
getConnection(st0, r, c) ==
  LET st == getUserPool(st0)
      p == st.userPools
      a == findAvailableConnection(st, p)
  IN IF a # 0
     THEN [st EXCEPT !.conns[a].isInUse = TRUE, !.reqs[r].pc = "chatid",
                     !.reqs[r].ws = a, !.reqs[r].holds = a]
     ELSE IF st.pools[p].activeCount >= maxConnections
     THEN [st EXCEPT !.pools[p].queue = Append(@, r),
                     !.reqs[r].pc = "queued", !.reqs[r].qtimer = TRUE,
                     !.reqs[r].qpool = p]
     ELSE createConnection(st, r, p, c)

\* will getConnection reach createConnection in this state?
WouldCreate(st0) ==
  LET st == getUserPool(st0)
      p == st.userPools
  IN /\ findAvailableConnection(st, p) = 0
     /\ st.pools[p].activeCount < maxConnections

\* POST /v1/chat/completions up to `await wsPool.getConnection`
StartRequest(r) ==
  /\ route = "pooled"
  /\ r = nextReq + 1
  /\ r <= MaxReqs
  /\ LET st0 == State
         c == nextConn + 1
     IN IF WouldCreate(st0)
        THEN /\ c <= MaxConns
             /\ Commit(getConnection(st0, r, c))
             /\ nextConn' = c
        ELSE /\ Commit(getConnection(st0, r, 1))
             /\ nextConn' = nextConn
  /\ nextReq' = r
  /\ UNCHANGED <<nframes, nfaults, route, otherVars>>
  /\ delivered' = NoFrame

\* ws.on('open') of createConnection
WsOpen(c) ==
  /\ route = "pooled"
  /\ conns[c].readyState = "CONNECTING"
  /\ LET p == conns[c].pool
         st == [State EXCEPT !.conns[c].readyState = "OPEN",
                              !.pools[p].connections = Append(@, c),
                              !.pools[p].activeCount = @ + 1]
     IN Commit(resolveGet(st, conns[c].creator, c))
  /\ UNCHANGED <<nextConn, nextReq, nframes, nfaults, route, otherVars>>
  /\ delivered' = NoFrame

\* the 10 s timer of createConnection; it changes nothing unless the socket
\* is still CONNECTING when it fires
ConnectTimeout(c) ==
  /\ route = "pooled"
  /\ conns[c].readyState = "CONNECTING"
  /\ Commit(rejectGet([State EXCEPT !.conns[c].readyState = "CLOSING"],
                      conns[c].creator))
  /\ Fault
  /\ UNCHANGED <<nextConn, nextReq, nframes, route, otherVars>>
  /\ delivered' = NoFrame

\* a queue timer that rejects without looking for its entry
QueueTimeoutUnchecked(r) ==
  /\ route = "pooled"
  /\ reqs[r].qtimer
  /\ LET p == reqs[r].qpool
         st == [State EXCEPT !.reqs[r].qtimer = FALSE]
     IN Commit(rejectGet([st EXCEPT !.pools[p].queue = Without(@, r)], r))
  /\ Fault
  /\ UNCHANGED <<nextConn, nextReq, nframes, route, otherVars>>
  /\ delivered' = NoFrame

\* the 30 s timer of a queued getConnection
QueueTimeout(r) ==
  /\ route = "pooled"
  /\ reqs[r].qtimer
  /\ LET p == reqs[r].qpool
         st == [State EXCEPT !.reqs[r].qtimer = FALSE]
     IN IF r \in SeqToSet(pools[p].queue)
        THEN Commit(rejectGet([st EXCEPT !.pools[p].queue = Without(@, r)], r))
        ELSE Commit(st)
  /\ Fault
  /\ UNCHANGED <<nextConn, nextReq, nframes, route, otherVars>>
  /\ delivered' = NoFrame

\* ------------------------------------------------- the delta translator
\* an item handler that never stores the text it has just diffed
updateItemNoStore(t, item, n) ==
  IF item.type = "text"
  THEN [t EXCEPT !.output = ReplaceFirst(item.text, t.TextLastContent)]
  ELSE IF item.type = "thinking" /\ n = 1
  THEN [t EXCEPT !.output = ReplaceFirst(item.text, t.ThinkingLastContent)]
  ELSE t

\* an item handler that opens the reasoning block at every reasoning segment
updateItemAlwaysOpen(t, item, n) ==
  IF item.type = "text"
  THEN LET o == ReplaceFirst(item.text, t.TextLastContent)
           closing == t.ThinkingStart /\ ~t.ThinkingEnd
       IN [t EXCEPT !.output = IF closing THEN o \o <<CloseMarker>> ELSE o,
                    !.ThinkingEnd = @ \/ closing,
                    !.TextLastContent = item.text]
  ELSE IF item.type = "thinking" /\ n = 1
  THEN [t EXCEPT !.output = <<OpenMarker>>
                            \o ReplaceFirst(item.text, t.ThinkingLastContent),
                 !.ThinkingStart = TRUE,
                 !.ThinkingLastContent = item.text]
  ELSE t

\* UPDATE_LAST_MESSAGE, one item of MessageArray (part_000:1610-1625).
\* t carries ThinkingLastContent, TextLastContent, ThinkingStart,
\* ThinkingEnd and the local `output`; n is MessageArray.length.
updateItem(t, item, n) ==
  IF item.type = "text"
  THEN LET o == ReplaceFirst(item.text, t.TextLastContent)
           closing == t.ThinkingStart /\ ~t.ThinkingEnd
       IN [t EXCEPT !.output = IF closing THEN o \o <<CloseMarker>> ELSE o,
                    !.ThinkingEnd = @ \/ closing,
                    !.TextLastContent = item.text]
  ELSE IF item.type = "thinking" /\ n = 1
  THEN LET o == ReplaceFirst(item.text, t.ThinkingLastContent)
       IN [t EXCEPT !.output = IF ~t.ThinkingStart THEN <<OpenMarker>> \o o
                               ELSE o,
                    !.ThinkingStart = TRUE,
                    !.ThinkingLastContent = item.text]
  ELSE t

\* for (const item of MessageArray) { ... }
RECURSIVE updateItems(_, _, _)
updateItems(t, items, i) ==
  IF i > Len(items) THEN t
  ELSE updateItems(updateItem(t, items[i], Len(items)), items, i + 1)

TrOf(rq) == [ThinkingLastContent |-> rq.ThinkingLastContent,
             TextLastContent |-> rq.TextLastContent,
             ThinkingStart |-> rq.ThinkingStart,
             ThinkingEnd |-> rq.ThinkingEnd,
             output |-> <<>>]

\* the UPDATE_LAST_MESSAGE branch of messageHandler (part_000:1607-1632)
onUpdate(rq, content) ==
  LET t == updateItems(TrOf(rq), content, 1)
      rq1 == [rq EXCEPT !.ThinkingLastContent = t.ThinkingLastContent,
                        !.TextLastContent = t.TextLastContent,
                        !.ThinkingStart = t.ThinkingStart,
                        !.ThinkingEnd = t.ThinkingEnd]
  IN IF rq.stream /\ ~rq.headersSent
     THEN resWrite(rq1, [k |-> "chunk", content |-> t.output])
     ELSE rq1

\* a body that leaves the reasoning out
finalOutputAnswerOnly(rq) == rq.TextLastContent

\* the non-streaming body assembled at part_000:1637-1639
finalOutput(rq) ==
  IF rq.ThinkingLastContent # <<>>
  THEN <<OpenMarker>> \o rq.ThinkingLastContent \o <<CloseMarker>>
       \o rq.TextLastContent
  ELSE rq.TextLastContent

\* the INDIVIDUAL_RUN_COMPLETE branch of messageHandler (part_000:1633-1712)
onComplete(st, r) ==
  LET rq == st.reqs[r]
      st1 == [st EXCEPT !.reqs[r].isCompleted = TRUE]
  IN IF rq.isCompleted THEN st
     ELSE IF rq.ThinkingLastContent = <<>> /\ rq.TextLastContent = <<>>
     THEN LET st2 == routeRelease([st1 EXCEPT !.reqs[r].msgL = FALSE], r)
          IN [st2 EXCEPT !.reqs[r] =
                resJson(@, [k |-> "error", status |-> 502,
                            code |-> "empty_response"])]
     ELSE IF ~rq.stream
     THEN LET st2 == routeRelease([st1 EXCEPT !.reqs[r].msgL = FALSE], r)
          IN IF ~st2.reqs[r].headersSent
             THEN [st2 EXCEPT !.reqs[r] =
                     resJson(@, [k |-> "json", content |-> finalOutput(rq)])]
             ELSE st2
     ELSE LET st2 == IF ~rq.headersSent
                     THEN [st1 EXCEPT !.reqs[r] =
                             resEnd(resWrite(resWrite(@, [k |-> "final"]),
                                             [k |-> "DONE"]))]
                     ELSE st1
          IN routeRelease([st2 EXCEPT !.reqs[r].msgL = FALSE], r)

\* a messageHandler without the test of individual_run_request_id
messageHandlerNoFilter(st, r, f) ==
  IF f.rid = Malformed THEN st
  ELSE IF f.name = "UPDATE_LAST_MESSAGE"
  THEN [st EXCEPT !.reqs[r] = onUpdate(@, f.content)]
  ELSE IF f.name = "INDIVIDUAL_RUN_COMPLETE"
  THEN onComplete(st, r)
  ELSE st

\* messageHandler(data) of request r; RequestID of request r is r.  The
\* returns at part_000:1579-1600 discard a malformed frame, the test at
\* part_000:1603 a frame of another job or without an id.
messageHandler(st, r, f) ==
  IF f.rid = Malformed THEN st
  ELSE IF f.rid # r \/ f.rid = NoId THEN st
  ELSE IF f.name = "UPDATE_LAST_MESSAGE"
  THEN [st EXCEPT !.reqs[r] = onUpdate(@, f.content)]
  ELSE IF f.name = "INDIVIDUAL_RUN_COMPLETE"
  THEN onComplete(st, r)
  ELSE st

\* errorHandler(error) of request r (part_000:1722-1731)
errorHandler(st, r) ==
  LET st1 == routeRelease([st EXCEPT !.reqs[r].msgL = FALSE,
                                     !.reqs[r].errL = FALSE], r)
  IN IF ~st1.reqs[r].headersSent
     THEN [st1 EXCEPT !.reqs[r] = handleError(@, 0)]
     ELSE st1

\* emit(event): the listeners run one after the other
RECURSIVE emitMessage(_, _, _)
emitMessage(st, rs, f) ==
  IF rs = {} THEN st
  ELSE LET r == CHOOSE x \in rs : \A y \in rs : x <= y
       IN emitMessage(messageHandler(st, r, f), rs \ {r}, f)

RECURSIVE emitError(_, _)
emitError(st, rs) ==
  IF rs = {} THEN st
  ELSE LET r == CHOOSE x \in rs : \A y \in rs : x <= y
       IN emitError(errorHandler(st, r), rs \ {r})

\* ------------------------------------------------------ the pooled route
\* upstream HTTP status carried by a control-plane error (0: none)
UpStatuses == {0, 429}

\* `await getChatID(req, res)` returned; setHeader() is the first reader of
\* req.body.stream (part_000:1563), so the caller's flag is drawn here
ChatIdOk(r, stream) ==
  /\ route = "pooled"
  /\ reqs[r].pc = "chatid"
  /\ reqs' = [reqs EXCEPT ![r].pc = "sending", ![r].stream = stream,
                          ![r].chatID = TRUE]
  /\ UNCHANGED <<userPools, pools, conns, nextConn, nextReq, nframes, nfaults, route, otherVars>>
  /\ delivered' = NoFrame

\* `await getChatID(req, res)` threw (part_000:1531-1534)
ChatIdFail(r, status) ==
  /\ route = "pooled"
  /\ reqs[r].pc = "chatid"
  /\ LET st == routeRelease(State, r)
     IN Commit([st EXCEPT !.reqs[r] = [handleError(@, status) EXCEPT
                                         !.pc = "done", !.thrown = status]])
  /\ Fault
  /\ UNCHANGED <<nextConn, nextReq, nframes, route, otherVars>>
  /\ delivered' = NoFrame

\* `await sentRequest(req, res)` returned: listeners bound, deadline armed
\* (part_000:1733-1757)
SentOk(r) ==
  /\ route = "pooled"
  /\ reqs[r].pc = "sending"
  /\ reqs' = [reqs EXCEPT ![r].pc = "listening", ![r].msgL = TRUE,
                          ![r].errL = TRUE, ![r].timer = TRUE]
  /\ UNCHANGED <<userPools, pools, conns, nextConn, nextReq, nframes, nfaults, route, otherVars>>
  /\ delivered' = NoFrame

\* a catch of sentRequest's error that answers without releasing
SentFailNoRelease(r, status) ==
  /\ route = "pooled"
  /\ reqs[r].pc = "sending"
  /\ Commit([State EXCEPT !.reqs[r] = [handleError(@, status) EXCEPT
                                         !.pc = "done", !.thrown = status]])
  /\ Fault
  /\ UNCHANGED <<nextConn, nextReq, nframes, route, otherVars>>
  /\ delivered' = NoFrame

\* `await sentRequest(req, res)` threw (part_000:1569-1572)
SentFail(r, status) ==
  /\ route = "pooled"
  /\ reqs[r].pc = "sending"
  /\ LET st == routeRelease(State, r)
     IN Commit([st EXCEPT !.reqs[r] = [handleError(@, status) EXCEPT
                                         !.pc = "done", !.thrown = status]])
  /\ Fault
  /\ UNCHANGED <<nextConn, nextReq, nframes, route, otherVars>>
  /\ delivered' = NoFrame

\* the 10 min deadline (part_000:1738-1757)
RequestTimeout(r) ==
  /\ route = "pooled"
  /\ reqs[r].timer
  /\ LET st == [State EXCEPT !.reqs[r].timer = FALSE]
     IN IF ~reqs[r].isCompleted
        THEN LET st1 == routeRelease([st EXCEPT !.reqs[r].msgL = FALSE,
                                                !.reqs[r].errL = FALSE], r)
             IN IF ~st1.reqs[r].headersSent
                THEN Commit([st1 EXCEPT !.reqs[r] =
                        resJson(@, [k |-> "error", status |-> 504,
                                    code |-> "request_timeout"])])
                ELSE Commit(st1)
        ELSE Commit(st)
  /\ Fault
  /\ UNCHANGED <<nextConn, nextReq, nframes, route, otherVars>>
  /\ delivered' = NoFrame

\* frames of the protocol specification
Item(type, text) == [type |-> type, text |-> text]
UpdateContents == { <<Item("text", <<>>)>>, <<Item("text", <<"a">>)>> }
FrameContents(name) ==
  IF name = "UPDATE_LAST_MESSAGE" THEN UpdateContents ELSE {<<>>}
FrameNames == {"UPDATE_LAST_MESSAGE", "INDIVIDUAL_RUN_COMPLETE"}

Listeners(c, field) == {r \in ReqIds : reqs[r][field] /\ reqs[r].ws = c}

\* ws.on('message'): a frame of job rid arrives on connection c
DeliverFrame(c, rid, name, content) ==
  /\ route = "pooled"
  /\ nframes < MaxFrames
  /\ conns[c].readyState \in {"OPEN", "CLOSING"}
  /\ IF rid <= 0 THEN TRUE ELSE reqs[rid].pc \in {"sending", "listening"}
  /\ Commit(emitMessage(State, Listeners(c, "msgL"),
                        [rid |-> rid, name |-> name, content |-> content]))
  /\ nframes' = nframes + 1
  /\ UNCHANGED <<nextConn, nextReq, nfaults, route, otherVars>>
  /\ delivered' = IF rid \in Listeners(c, "msgL") THEN rid ELSE Foreign

\* ws.on('error'): the ws library leaves OPEN before it emits 'error';
\* the pool's listener (part_003:103-107) runs first, then the routes'
WsError(c) ==
  /\ route = "pooled"
  /\ conns[c].readyState \in {"CONNECTING", "OPEN"}
  /\ LET st1 == [State EXCEPT !.conns[c].readyState = "CLOSING"]
         st2 == removeConnection(st1, c, conns[c].pool)
         st3 == IF conns[c].readyState = "CONNECTING"
                THEN rejectGet(st2, conns[c].creator) ELSE st2
     IN Commit(emitError(st3, Listeners(c, "errL")))
  /\ Fault
  /\ UNCHANGED <<nextConn, nextReq, nframes, route, otherVars>>
  /\ delivered' = NoFrame

\* ws.on('close') (part_003:110-113)
WsClose(c) ==
  /\ route = "pooled"
  /\ conns[c].readyState \in {"OPEN", "CLOSING"}
  /\ Commit(removeConnection([State EXCEPT !.conns[c].readyState = "CLOSED"],
                             c, conns[c].pool))
  /\ Fault
  /\ UNCHANGED <<nextConn, nextReq, nframes, route, otherVars>>
  /\ delivered' = NoFrame

\* one sweep of cleanup(); expired is the set of connections with
\* now - lastUsed > connectionTimeout
RECURSIVE removeAll(_, _, _)
removeAll(st, cs, p) ==
  IF cs = {} THEN st
  ELSE LET c == CHOOSE x \in cs : TRUE
       IN removeAll(removeConnection(st, c, p), cs \ {c}, p)

\* a sweep that keeps every identity in the index
cleanupKeepEmpty(st, expired) ==
  IF st.userPools = 0 THEN st
  ELSE LET p == st.userPools
           toRemove == {c \in SeqToSet(st.pools[p].connections) :
                          /\ \/ c \in expired
                             \/ st.conns[c].requestCount > OverusedLimit
                             \/ st.conns[c].readyState # "OPEN"
                          /\ ~st.conns[c].isInUse}
           st1 == [st EXCEPT !.conns = [c \in ConnIds |->
                      IF c \in toRemove /\ st.conns[c].readyState = "OPEN"
                      THEN [st.conns[c] EXCEPT !.readyState = "CLOSING"]
                      ELSE st.conns[c]]]
       IN removeAll(st1, toRemove, p)

\* a sweep that does not look at isInUse
cleanupBusyToo(st, expired) ==
  IF st.userPools = 0 THEN st
  ELSE LET p == st.userPools
           toRemove == {c \in SeqToSet(st.pools[p].connections) :
                          \/ c \in expired
                          \/ st.conns[c].requestCount > OverusedLimit
                          \/ st.conns[c].readyState # "OPEN"}
           st1 == [st EXCEPT !.conns = [c \in ConnIds |->
                      IF c \in toRemove /\ st.conns[c].readyState = "OPEN"
                      THEN [st.conns[c] EXCEPT !.readyState = "CLOSING"]
                      ELSE st.conns[c]]]
           st2 == removeAll(st1, toRemove, p)
       IN IF Len(st2.pools[p].connections) = 0 /\ Len(st2.pools[p].queue) = 0
          THEN [st2 EXCEPT !.userPools = 0]
          ELSE st2

\* cleanup(): the body of the interval callback, for the one identity
cleanup(st, expired) ==
  IF st.userPools = 0 THEN st
  ELSE LET p == st.userPools
           toRemove == {c \in SeqToSet(st.pools[p].connections) :
                          /\ \/ c \in expired
                             \/ st.conns[c].requestCount > OverusedLimit
                             \/ st.conns[c].readyState # "OPEN"
                          /\ ~st.conns[c].isInUse}
           st1 == [st EXCEPT !.conns = [c \in ConnIds |->
                      IF c \in toRemove /\ st.conns[c].readyState = "OPEN"
                      THEN [st.conns[c] EXCEPT !.readyState = "CLOSING"]
                      ELSE st.conns[c]]]
           st2 == removeAll(st1, toRemove, p)
       IN IF Len(st2.pools[p].connections) = 0 /\ Len(st2.pools[p].queue) = 0
          THEN [st2 EXCEPT !.userPools = 0]
          ELSE st2

Cleanup(expired) ==
  /\ route = "pooled"
  /\ userPools # 0
  /\ expired \subseteq SeqToSet(pools[userPools].connections)
  /\ Commit(cleanup(State, expired))
  /\ Fault
  /\ UNCHANGED <<nextConn, nextReq, nframes, route, otherVars>>
  /\ delivered' = NoFrame


\* --------------------------------------------- the streaming-fix route
\* part_000:377-737.  Every request of this route opens its own socket
\* (createWebSocketConnection) and shares no state with other requests, so
\* one request is modelled.  Its sockets belong to no pool (pool = 0).

\* handleError(res, error, context) of this route (part_000:32-94)
handleErrorFix(rq, status) ==
  IF rq.headersSent
  THEN resEnd(resWrite(resWrite(rq, [k |-> "inband", type |-> "stream_error"]),
                       [k |-> "DONE"]))
  ELSE resJson(rq, [k |-> "error", status |-> statusCode(status),
                    code |-> errorCode(status)])

\* if (ws && ws.readyState === WebSocket.OPEN) ws.close()
closeIfOpen(st, c) ==
  IF c # 0 /\ st.conns[c].readyState = "OPEN"
  THEN [st EXCEPT !.conns[c].readyState = "CLOSING"]
  ELSE st

\* the request up to `await createWebSocketConnection(req.account)`;
\* res.flushHeaders() sends the headers of a streaming response at once
FixStart(r, stream) ==
  /\ route = "fix"
  /\ r = 1 /\ nextReq = 0
  /\ nextConn < MaxConns
  /\ LET c == nextConn + 1
     IN /\ conns' = [conns EXCEPT ![c] =
                       [readyState |-> "CONNECTING", isInUse |-> FALSE,
                        requestCount |-> 0, pool |-> 0, creator |-> r]]
        /\ nextConn' = c
  /\ reqs' = [reqs EXCEPT ![r].pc = "connecting", ![r].stream = stream,
                          ![r].headersSent = stream]
  /\ nextReq' = r
  /\ UNCHANGED <<userPools, pools, nframes, nfaults, route, otherVars>>
  /\ delivered' = NoFrame

\* ws.on('open') of createWebSocketConnection (part_000:349-356)
FixOpen(c) ==
  /\ route = "fix"
  /\ conns[c].readyState = "CONNECTING"
  /\ conns' = [conns EXCEPT ![c].readyState = "OPEN"]
  /\ reqs' = [reqs EXCEPT ![conns[c].creator].pc = "chatid",
                          ![conns[c].creator].ws = c]
  /\ UNCHANGED <<userPools, pools, nextConn, nextReq, nframes, nfaults, route,
                 otherVars>>
  /\ delivered' = NoFrame

\* the 10 s timer of createWebSocketConnection (part_000:367-372), then the
\* catch at part_000:403-406
FixConnectTimeout(c) ==
  /\ route = "fix"
  /\ conns[c].readyState = "CONNECTING"
  /\ conns' = [conns EXCEPT ![c].readyState = "CLOSING"]
  /\ reqs' = [reqs EXCEPT ![conns[c].creator] =
                [handleErrorFix(@, 0) EXCEPT !.pc = "done"]]
  /\ Fault
  /\ UNCHANGED <<userPools, pools, nextConn, nextReq, nframes, route, otherVars>>
  /\ delivered' = NoFrame

FixChatIdOk(r) ==
  /\ route = "fix"
  /\ reqs[r].pc = "chatid"
  /\ reqs' = [reqs EXCEPT ![r].pc = "sending", ![r].chatID = TRUE]
  /\ UNCHANGED <<userPools, pools, conns, nextConn, nextReq, nframes, nfaults,
                 route, otherVars>>
  /\ delivered' = NoFrame

\* part_000:411-416
FixChatIdFail(r, status) ==
  /\ route = "fix"
  /\ reqs[r].pc = "chatid"
  /\ LET st == closeIfOpen(State, reqs[r].ws)
     IN Commit([st EXCEPT !.reqs[r] = [handleErrorFix(@, status) EXCEPT !.pc = "done"]])
  /\ Fault
  /\ UNCHANGED <<nextConn, nextReq, nframes, route, otherVars>>
  /\ delivered' = NoFrame

\* sentRequest returned: the initial role chunk of a streaming response,
\* the listeners and the deadline (part_000:455-470, 669-715)
FixSentOk(r) ==
  /\ route = "fix"
  /\ reqs[r].pc = "sending"
  /\ reqs' = [reqs EXCEPT ![r] =
        [(IF @.stream THEN resWrite(@, [k |-> "role"]) ELSE @)
           EXCEPT !.pc = "listening", !.msgL = TRUE, !.errL = TRUE,
                  !.timer = TRUE]]
  /\ UNCHANGED <<userPools, pools, conns, nextConn, nextReq, nframes, nfaults,
                 route, otherVars>>
  /\ delivered' = NoFrame

\* part_000:448-453
FixSentFail(r, status) ==
  /\ route = "fix"
  /\ reqs[r].pc = "sending"
  /\ LET st == closeIfOpen(State, reqs[r].ws)
     IN Commit([st EXCEPT !.reqs[r] = [handleErrorFix(@, status) EXCEPT !.pc = "done"]])
  /\ Fault
  /\ UNCHANGED <<nextConn, nextReq, nframes, route, otherVars>>
  /\ delivered' = NoFrame

\* the UPDATE_LAST_MESSAGE branch (part_000:505-537)
onUpdateFix(rq, content) ==
  LET t == updateItems(TrOf(rq), content, 1)
      rq1 == [rq EXCEPT !.ThinkingLastContent = t.ThinkingLastContent,
                        !.TextLastContent = t.TextLastContent,
                        !.ThinkingStart = t.ThinkingStart,
                        !.ThinkingEnd = t.ThinkingEnd]
  IN IF rq.stream /\ t.output # <<>> /\ ~rq.isCompleted
     THEN resWrite(rq1, [k |-> "chunk", content |-> t.output])
     ELSE rq1

\* the INDIVIDUAL_RUN_COMPLETE branch (part_000:538-638)
onCompleteFix(st, r) ==
  LET rq == st.reqs[r]
      st1 == closeIfOpen([st EXCEPT !.reqs[r].isCompleted = TRUE], rq.ws)
  IN IF rq.isCompleted THEN st
     ELSE IF rq.ThinkingLastContent = <<>> /\ rq.TextLastContent = <<>>
     THEN IF rq.stream
          THEN [st1 EXCEPT !.reqs[r] =
                  resEnd(resWrite(resWrite(@, [k |-> "inband",
                                               type |-> "upstream_error"]),
                                  [k |-> "DONE"]))]
          ELSE [st1 EXCEPT !.reqs[r] =
                  resJson(@, [k |-> "error", status |-> 502,
                              code |-> "empty_response"])]
     ELSE IF ~rq.stream
     THEN IF ~rq.headersSent
          THEN [st1 EXCEPT !.reqs[r] =
                  resJson(@, [k |-> "json", content |-> finalOutput(rq)])]
          ELSE st1
     ELSE [st1 EXCEPT !.reqs[r] =
             resEnd(resWrite(resWrite(@, [k |-> "final"]), [k |-> "DONE"]))]

\* messageHandler(data) (part_000:473-645)
messageHandlerFix(st, r, f) ==
  IF f.rid = Malformed THEN st
  ELSE IF f.rid # r \/ f.rid = NoId THEN st
  ELSE IF f.name = "UPDATE_LAST_MESSAGE"
  THEN [st EXCEPT !.reqs[r] = onUpdateFix(@, f.content)]
  ELSE IF f.name = "INDIVIDUAL_RUN_COMPLETE"
  THEN onCompleteFix(st, r)
  ELSE st

\* an errorHandler that writes its in-band error without res.end()
errorHandlerFixNoEnd(st, r) ==
  LET st1 == closeIfOpen(st, st.reqs[r].ws)
      rq == st1.reqs[r]
  IN IF ~rq.headersSent
     THEN [st1 EXCEPT !.reqs[r] = handleErrorFix(@, 0)]
     ELSE IF rq.stream
     THEN [st1 EXCEPT !.reqs[r] =
             resWrite(resWrite(@, [k |-> "inband", type |-> "connection_error"]),
                      [k |-> "DONE"])]
     ELSE st1

\* errorHandler(error) (part_000:648-667)
errorHandlerFix(st, r) ==
  LET st1 == closeIfOpen(st, st.reqs[r].ws)
      rq == st1.reqs[r]
  IN IF ~rq.headersSent
     THEN [st1 EXCEPT !.reqs[r] = handleErrorFix(@, 0)]
     ELSE IF rq.stream
     THEN [st1 EXCEPT !.reqs[r] =
             resEnd(resWrite(resWrite(@, [k |-> "inband",
                                          type |-> "connection_error"]),
                             [k |-> "DONE"]))]
     ELSE st1

\* ws.on('message'); the ws library still delivers frames while CLOSING
FixFrame(c, rid, name, content) ==
  /\ route = "fix"
  /\ nframes < MaxFrames
  /\ conns[c].readyState \in {"OPEN", "CLOSING"}
  /\ IF rid <= 0 THEN TRUE ELSE reqs[rid].pc \in {"sending", "listening"}
  /\ LET f == [rid |-> rid, name |-> name, content |-> content]
         r == conns[c].creator
     IN IF reqs[r].msgL /\ reqs[r].ws = c
        THEN Commit(messageHandlerFix(State, r, f))
        ELSE Commit(State)
  /\ nframes' = nframes + 1
  /\ UNCHANGED <<nextConn, nextReq, nfaults, route, otherVars>>
  /\ delivered' = IF rid \in Listeners(c, "msgL") THEN rid ELSE Foreign

\* ws.on('error'): reject of createWebSocketConnection (part_000:358-361)
\* while connecting, the route's errorHandler once it is bound
FixWsError(c) ==
  /\ route = "fix"
  /\ conns[c].readyState \in {"CONNECTING", "OPEN"}
  /\ LET r == conns[c].creator
         st1 == [State EXCEPT !.conns[c].readyState = "CLOSING"]
     IN IF conns[c].readyState = "CONNECTING"
        THEN Commit([st1 EXCEPT !.reqs[r] =
                       [handleErrorFix(@, 0) EXCEPT !.pc = "done"]])
        ELSE IF reqs[r].errL /\ reqs[r].ws = c
        THEN Commit(errorHandlerFix(st1, r))
        ELSE Commit(st1)
  /\ Fault
  /\ UNCHANGED <<nextConn, nextReq, nframes, route, otherVars>>
  /\ delivered' = NoFrame

\* ws.on('close') (part_000:363-365): only logged
FixWsClose(c) ==
  /\ route = "fix"
  /\ conns[c].readyState \in {"OPEN", "CLOSING"}
  /\ conns' = [conns EXCEPT ![c].readyState = "CLOSED"]
  /\ Fault
  /\ UNCHANGED <<userPools, pools, reqs, nextConn, nextReq, nframes, route,
                 otherVars>>
  /\ delivered' = NoFrame

\* the 10 min deadline (part_000:674-702)
FixTimeout(r) ==
  /\ route = "fix"
  /\ reqs[r].timer
  /\ LET st == [State EXCEPT !.reqs[r].timer = FALSE]
     IN IF ~reqs[r].isCompleted
        THEN LET st1 == closeIfOpen(st, reqs[r].ws)
                 rq == st1.reqs[r]
             IN IF ~rq.headersSent
                THEN Commit([st1 EXCEPT !.reqs[r] =
                        resJson(@, [k |-> "error", status |-> 504,
                                    code |-> "request_timeout"])])
                ELSE IF rq.stream
                THEN Commit([st1 EXCEPT !.reqs[r] =
                        resEnd(resWrite(resWrite(@, [k |-> "inband",
                                                     type |-> "timeout_error"]),
                                        [k |-> "DONE"]))])
                ELSE Commit(st1)
        ELSE Commit(st)
  /\ Fault
  /\ UNCHANGED <<nextConn, nextReq, nframes, route, otherVars>>
  /\ delivered' = NoFrame

\* ------------------------------------------------- request parameters
\* JavaScript values as records of one shape.  Numbers that the code treats
\* as fractions (temperature, top_p) are held in hundredths: 100 is 1.0.
Undefined == [t |-> "undefined", v |-> 0, type |-> "", hasBudget |-> FALSE,
              budget_tokens |-> 0]
Null == [Undefined EXCEPT !.t = "null"]
Num(n) == [Undefined EXCEPT !.t = "number", !.v = n]
\* a string that does not convert to a number, such as "hot"
NonNumeric == [Undefined EXCEPT !.t = "string"]
\* a function inherited from Object.prototype
Inherited == [Undefined EXCEPT !.t = "function"]
\* a thinking object {type, budget_tokens}
Thinking(type, budget) ==
  [Undefined EXCEPT !.t = "object", !.type = type, !.hasBudget = TRUE,
                    !.budget_tokens = budget]
\* a thinking object {type}
ThinkingBare(type) == [Undefined EXCEPT !.t = "object", !.type = type]

\* !x
Falsy(x) == x.t \in {"undefined", "null"} \/ (x.t = "number" /\ x.v = 0)
\* x < n, x <= n, x > n: a value that converts to NaN compares false
Lt(x, n) == x.t = "number" /\ x.v < n
Le(x, n) == x.t = "number" /\ x.v <= n
Gt(x, n) == x.t = "number" /\ x.v > n

\* the names every object inherits from Object.prototype
ObjectPrototype == {"toString"}
\* o[k] of an own property
Own(o, k) == IF k \in DOMAIN o THEN o[k] ELSE Undefined
\* o[k] through the prototype chain
Get(o, k) ==
  IF k \in DOMAIN o THEN o[k]
  ELSE IF k \in ObjectPrototype THEN Inherited ELSE Undefined
\* o[k] = v
Put(o, k, v) == [x \in DOMAIN o \cup {k} |-> IF x = k THEN v ELSE o[x]]

\* processParameters(body); r1 and r2 are the two draws of
\* Math.round((Math.random() * 0.1 + 0.8) * 100) / 100, in hundredths
Randoms == {80, 90}
processParameters(body, r1, r2) ==
  LET p1 == IF \/ Falsy(Own(body, "temperature"))
               \/ Le(Own(body, "temperature"), 0)
               \/ Gt(Own(body, "temperature"), 100)
            THEN Put(body, "temperature", Num(r1)) ELSE body
      p2 == IF \/ Falsy(Own(p1, "top_p"))
               \/ Le(Own(p1, "top_p"), 0)
               \/ Gt(Own(p1, "top_p"), 100)
            THEN Put(p1, "top_p", Num(r2)) ELSE p1
  IN IF \/ Falsy(Own(p2, "max_tokens"))
        \/ Lt(Own(p2, "max_tokens"), 8192)
        \/ Gt(Own(p2, "max_tokens"), 16384)
     THEN Put(p2, "max_tokens", Num(16384)) ELSE p2

\* the object with the given properties, those set to Undefined left out
ObjectOf(o) == [k \in {x \in DOMAIN o : o[x] # Undefined} |-> o[k]]

\* request bodies for processParameters: every sampling parameter absent,
\* null, a number on either side of each limit, or a non-numeric string
Fractions == {Undefined, Null, NonNumeric} \cup
             {Num(n) : n \in {0 - 10, 0, 1, 50, 100, 101}}
TokenCounts == {Undefined, Null, NonNumeric} \cup
               {Num(n) : n \in {0, 8191, 8192, 16384, 16385}}
NormBodies ==
  {ObjectOf([messages |-> NonNumeric, temperature |-> t, top_p |-> p,
             max_tokens |-> m]) :
     t \in Fractions, p \in Fractions, m \in TokenCounts}

NpIdle == [passes |-> 0, body |-> <<>>, processed |-> <<>>, again |-> <<>>]

\* processParameters(body) of a request body
Normalize(body, r1, r2) ==
  /\ np.passes = 0
  /\ np' = [passes |-> 1, body |-> body,
            processed |-> processParameters(body, r1, r2), again |-> <<>>]
  /\ UNCHANGED <<poolVars, deltaVars, retryVars, modelMap, pb>>

\* processParameters applied to its own result
NormalizeAgain(r1, r2) ==
  /\ np.passes = 1
  /\ np' = [np EXCEPT !.passes = 2,
                      !.again = processParameters(np.processed, r1, r2)]
  /\ UNCHANGED <<poolVars, deltaVars, retryVars, modelMap, pb>>

NormNext ==
  \/ \E body \in NormBodies, r1 \in Randoms, r2 \in Randoms :
       Normalize(body, r1, r2)
  \/ \E r1 \in Randoms, r2 \in Randoms : NormalizeAgain(r1, r2)

\* ------------------------------------------------- the upstream payload
\* lib/model-map: the parameters object of two of its models
DefaultModel == "claude-3-7-sonnet-20250219"
ThinkingModel == "claude-3-7-sonnet-20250219-thinking"
ModelMap0 ==
  (DefaultModel :> [max_tokens |-> Num(64000), temperature |-> Num(100),
                    top_k |-> Num(0), top_p |-> Num(0)])
  @@ (ThinkingModel :> [max_tokens |-> Num(64000),
                        thinking |-> Thinking("enabled", 32000)])

\* modelMap[req.body.model] ? modelMap[req.body.model] : modelMap[default]
Selected(model) == IF model \in DOMAIN ModelMap0 THEN model ELSE DefaultModel

\* the loop "for (const item in processedBody)": each item assigns only its
\* own name, so the items are independent of the order of iteration
mergeParameters(parameters, processedBody) ==
  LET copied == {item \in DOMAIN processedBody :
                   /\ item \notin {"messages", "model", "stream"}
                   /\ Get(parameters, item) # Undefined
                   /\ ~(item = "thinking"
                        /\ processedBody[item].type = "disabled")}
  IN [x \in DOMAIN parameters \cup copied |->
        IF x \in copied THEN processedBody[x] ELSE parameters[x]]

\* thinking.budget_tokens = Math.floor(max_tokens / 4), max_tokens a number
setBudgetKeep(parameters) == parameters
setBudget(parameters) ==
  LET thinking == Get(parameters, "thinking")
      max_tokens == Get(parameters, "max_tokens")
  IN IF ~Falsy(thinking) /\ ~Falsy(max_tokens) /\ thinking.t = "object"
     THEN Put(parameters, "thinking",
              [thinking EXCEPT !.hasBudget = TRUE,
                               !.budget_tokens = max_tokens.v \div 4])
     ELSE parameters

\* the oldest route: a name is copied when the schema's value is truthy
mergeOldest(parameters, body) ==
  LET copied == {item \in DOMAIN body :
                   /\ item \notin {"messages", "model", "stream"}
                   /\ ~Falsy(Get(parameters, item))
                   /\ ~(item = "thinking" /\ body[item].type = "disabled")}
  IN [x \in DOMAIN parameters \cup copied |->
        IF x \in copied THEN body[x] ELSE parameters[x]]

\* the oldest route: budget_tokens is lowered to max_tokens when above it
clampBudget(parameters) ==
  LET thinking == Get(parameters, "thinking")
      max_tokens == Get(parameters, "max_tokens")
  IN IF /\ ~Falsy(max_tokens)
        /\ thinking.t = "object" /\ thinking.hasBudget
        /\ thinking.budget_tokens # 0
        /\ Lt(max_tokens, thinking.budget_tokens)
     THEN Put(parameters, "thinking",
              [thinking EXCEPT !.budget_tokens = max_tokens.v])
     ELSE parameters

MaxBuilds == 2        \* payloads built
ModelNames == {DefaultModel, ThinkingModel, "unlisted"}
\* request bodies: numeric sampling parameters, a thinking object of the
\* caller, a name of no schema (seed) and a name every object inherits
BuildBodies ==
  {ObjectOf([messages |-> NonNumeric, model |-> NonNumeric,
             temperature |-> t, max_tokens |-> m, thinking |-> th,
             seed |-> s, toString |-> ts]) :
     t \in {Undefined, Num(50)}, m \in {Undefined, Num(8192)},
     th \in {Undefined, Thinking("enabled", 20000), ThinkingBare("disabled")},
     s \in {Undefined, Num(7)}, ts \in {Undefined, NonNumeric}}

PbIdle == [built |-> 0, variant |-> "none", model |-> DefaultModel,
           body |-> <<>>, bodyAfter |-> <<>>, parameters |-> <<>>]

\* req.body after the payload is built: { ...body } copies one level, so a
\* thinking object that the merge assigned is the caller's own object, and
\* the budget is written into it
callerBody(body, before, parameters) ==
  IF /\ "thinking" \in DOMAIN body
     /\ body["thinking"].type # "disabled"
     /\ ~Falsy(Get(before, "thinking"))
  THEN Put(body, "thinking", parameters["thinking"])
  ELSE body

\* getChatID or sentRequest of the pooled route builds its payload; the
\* payload's parameters object is the model map's own ({...model_data} copies
\* one level)
BuildPayload(model, body, r1, r2) ==
  /\ pb.built < MaxBuilds
  /\ pb.variant \in {"none", "pooled"}
  /\ LET model_data == Selected(model)
         processedBody == processParameters(body, r1, r2)
         parameters ==
           setBudget(mergeParameters(modelMap[model_data], processedBody))
     IN /\ modelMap' = [modelMap EXCEPT ![model_data] = parameters]
        /\ pb' = [built |-> pb.built + 1, variant |-> "pooled",
                  model |-> model_data, body |-> body,
                  bodyAfter |->
                    callerBody(body, modelMap[model_data], parameters),
                  parameters |-> parameters]
  /\ UNCHANGED <<poolVars, deltaVars, retryVars, np>>

\* getChatID of the oldest route builds its payload
BuildPayloadOldest(model, body) ==
  /\ pb.built < MaxBuilds
  /\ pb.variant \in {"none", "oldest"}
  /\ LET model_data == Selected(model)
         parameters == clampBudget(mergeOldest(modelMap[model_data], body))
     IN /\ modelMap' = [modelMap EXCEPT ![model_data] = parameters]
        /\ pb' = [built |-> pb.built + 1, variant |-> "oldest",
                  model |-> model_data, body |-> body,
                  bodyAfter |->
                    callerBody(body, modelMap[model_data], parameters),
                  parameters |-> parameters]
  /\ UNCHANGED <<poolVars, deltaVars, retryVars, np>>

ParamNext ==
  \/ \E model \in ModelNames, body \in BuildBodies,
        r1 \in Randoms, r2 \in Randoms : BuildPayload(model, body, r1, r2)
  \/ \E model \in ModelNames, body \in BuildBodies :
        BuildPayloadOldest(model, body)

ParamIdle == np = NpIdle /\ modelMap = ModelMap0 /\ pb = PbIdle

\* one request of the pooled route: getChatID builds and sends its payload,
\* then the retry of that call or sentRequest builds the next one from the
\* same req.body; processParameters runs inside every attempt
\* (part_000:1353, 1429)
FirstSend(model, body, r1, r2) ==
  /\ pb.built = 0
  /\ BuildPayload(model, body, r1, r2)

NextSend(r1, r2) ==
  /\ pb.built >= 1
  /\ BuildPayload(pb.model, pb.bodyAfter, r1, r2)

SendNext ==
  \/ \E model \in ModelNames, body \in NormBodies,
        r1 \in Randoms, r2 \in Randoms : FirstSend(model, body, r1, r2)
  \/ \E r1 \in Randoms, r2 \in Randoms : NextSend(r1, r2)

\* ------------------------------------------- one request, frames of both kinds
\* what request 1 received: the last answer text, the last reasoning text,
\* and the last reasoning text that was the only segment of its frame
HeardNothing == [text |-> <<>>, thinking |-> <<>>, sole |-> <<>>]

RECURSIVE hear(_, _, _)
hear(h, content, i) ==
  IF i > Len(content) THEN h
  ELSE LET item == content[i]
           h1 == IF item.type = "text" THEN [h EXCEPT !.text = item.text]
                 ELSE IF Len(content) = 1
                 THEN [h EXCEPT !.thinking = item.text, !.sole = item.text]
                 ELSE [h EXCEPT !.thinking = item.text]
       IN hear(h1, content, i + 1)

MaxBodyFrames == 4    \* frames delivered to the one request
BodyTexts == {<<>>, <<"a">>, <<"a", "b">>}
\* payload.message.content: a reasoning segment, an answer segment, or the
\* reasoning segment followed by the answer segment
BodyContents ==
  {<<Item(kind, t)>> : kind \in {"thinking", "text"}, t \in BodyTexts}
  \cup {<<Item("thinking", t1), Item("text", t2)>> :
          t1 \in BodyTexts \ {<<>>}, t2 \in BodyTexts \ {<<>>}}
BodyFrameContents(name) ==
  IF name = "UPDATE_LAST_MESSAGE" THEN BodyContents ELSE {<<>>}

\* ws.on('message') of the pooled route: a frame of job 1 arrives
BodyFrame(c, name, content) ==
  /\ route = "pooled"
  /\ nframes < MaxBodyFrames
  /\ conns[c].readyState \in {"OPEN", "CLOSING"}
  /\ reqs[1].pc \in {"sending", "listening"}
  /\ Commit(emitMessage(State, Listeners(c, "msgL"),
                        [rid |-> 1, name |-> name, content |-> content]))
  /\ nframes' = nframes + 1
  /\ heard' = IF /\ 1 \in Listeners(c, "msgL") /\ ~reqs[1].isCompleted
                 /\ name = "UPDATE_LAST_MESSAGE"
              THEN hear(heard, content, 1) ELSE heard
  /\ delivered' = IF 1 \in Listeners(c, "msgL") THEN 1 ELSE Foreign
  /\ UNCHANGED <<nextConn, nextReq, nfaults, route, tr, cumul, deltas, nfed,
                 extends, emitted, retryVars, paramVars>>

\* ws.on('message') of the streaming-fix route: a frame of job 1 arrives
BodyFrameFix(c, name, content) ==
  /\ route = "fix"
  /\ nframes < MaxBodyFrames
  /\ conns[c].readyState \in {"OPEN", "CLOSING"}
  /\ reqs[1].pc \in {"sending", "listening"}
  /\ LET f == [rid |-> 1, name |-> name, content |-> content]
     IN IF reqs[1].msgL /\ reqs[1].ws = c
        THEN Commit(messageHandlerFix(State, 1, f))
        ELSE Commit(State)
  /\ nframes' = nframes + 1
  /\ heard' = IF /\ 1 \in Listeners(c, "msgL") /\ ~reqs[1].isCompleted
                 /\ name = "UPDATE_LAST_MESSAGE"
              THEN hear(heard, content, 1) ELSE heard
  /\ delivered' = IF 1 \in Listeners(c, "msgL") THEN 1 ELSE Foreign
  /\ UNCHANGED <<nextConn, nextReq, nfaults, route, tr, cumul, deltas, nfed,
                 extends, emitted, retryVars, paramVars>>

\* one request from its start to its completion, without failures
BodyNext ==
  \/ StartRequest(1)
  \/ \E c \in ConnIds : WsOpen(c)
  \/ \E stream \in BOOLEAN : ChatIdOk(1, stream)
  \/ SentOk(1)
  \/ \E c \in ConnIds, n \in FrameNames :
        \E ct \in BodyFrameContents(n) : BodyFrame(c, n, ct)
  \/ \E stream \in BOOLEAN : FixStart(1, stream)
  \/ \E c \in ConnIds : FixOpen(c)
  \/ FixChatIdOk(1)
  \/ FixSentOk(1)
  \/ \E c \in ConnIds, n \in FrameNames :
        \E ct \in BodyFrameContents(n) : BodyFrameFix(c, n, ct)

\* ------------------------------------- one request, to its last event
\* the 10 min deadline (part_000:1738-1757), which fires whenever it is armed
Deadline(r) ==
  /\ route = "pooled"
  /\ reqs[r].timer
  /\ LET st == [State EXCEPT !.reqs[r].timer = FALSE]
     IN IF ~reqs[r].isCompleted
        THEN LET st1 == routeRelease([st EXCEPT !.reqs[r].msgL = FALSE,
                                                !.reqs[r].errL = FALSE], r)
             IN IF ~st1.reqs[r].headersSent
                THEN Commit([st1 EXCEPT !.reqs[r] =
                        resJson(@, [k |-> "error", status |-> 504,
                                    code |-> "request_timeout"])])
                ELSE Commit(st1)
        ELSE Commit(st)
  /\ UNCHANGED <<nextConn, nextReq, nframes, nfaults, route, otherVars>>
  /\ delivered' = NoFrame

\* one request of the pooled route with the frames of its job, a socket
\* failure, failing upstream calls and its deadline
EndNext ==
  \/ StartRequest(1)
  \/ \E c \in ConnIds : WsOpen(c)
  \/ \E stream \in BOOLEAN : ChatIdOk(1, stream)
  \/ \E status \in UpStatuses : ChatIdFail(1, status)
  \/ SentOk(1)
  \/ \E status \in UpStatuses : SentFail(1, status)
  \/ \E c \in ConnIds, n \in FrameNames :
        \E ct \in BodyFrameContents(n) : BodyFrame(c, n, ct)
  \/ \E c \in ConnIds : WsError(c)
  \/ Deadline(1)

\* timers fire and the calls awaited by the handler return
EndFair ==
  /\ WF_vars(Deadline(1))
  /\ WF_vars(\E c \in ConnIds : WsOpen(c))
  /\ WF_vars(\E stream \in BOOLEAN : ChatIdOk(1, stream))
  /\ WF_vars(SentOk(1))

\* ------------------------------------------- the pool under steady load
\* websocket-pool.js alone, with no bound on the number of requests: a
\* request borrows a connection, holds it, returns it and is over; its slot
\* then serves the next request, and the slot of a closed socket the next
\* WebSocket.  requestCount is kept up to MaxCount, one above the cap: the
\* sweep only asks whether it exceeds the cap.
MaxCount == OverusedLimit + 1

Capped(st) ==
  [st EXCEPT !.conns = [c \in ConnIds |->
     [st.conns[c] EXCEPT !.requestCount = IF @ > MaxCount THEN MaxCount ELSE @]]]

\* the WebSocket slots no connection and no request uses
FreeConns ==
  {c \in ConnIds : /\ conns[c].readyState \in {"NONE", "CLOSED"}
                   /\ \A q \in ReqIds : reqs[q].ws # c}

\* wsPool.getConnection(userAccount, requestId) by a new request
Borrow(r) ==
  /\ route = "pooled"
  /\ reqs[r].pc = "new"
  /\ LET st0 == State
     IN IF WouldCreate(st0)
        THEN /\ FreeConns # {}
             /\ Commit(getConnection(st0, r,
                         CHOOSE c \in FreeConns : \A d \in FreeConns : c <= d))
        ELSE Commit(getConnection(st0, r, 1))
  /\ UNCHANGED <<nextConn, nextReq, nframes, nfaults, route, delivered,
                 otherVars>>

\* ws.on('open') of createConnection
Opened(c) ==
  /\ route = "pooled"
  /\ conns[c].readyState = "CONNECTING"
  /\ LET p == conns[c].pool
         st == [State EXCEPT !.conns[c].readyState = "OPEN",
                              !.pools[p].connections = Append(@, c),
                              !.pools[p].activeCount = @ + 1]
     IN Commit(resolveGet(st, conns[c].creator, c))
  /\ UNCHANGED <<nextConn, nextReq, nframes, nfaults, route, delivered,
                 otherVars>>

\* wsPool.releaseConnection(ws) by the request that holds ws; the request
\* is over
Return(r) ==
  /\ route = "pooled"
  /\ reqs[r].pc = "chatid"
  /\ Commit([Capped(routeRelease(State, r)) EXCEPT !.reqs[r] = NewReq])
  /\ UNCHANGED <<nextConn, nextReq, nframes, nfaults, route, delivered,
                 otherVars>>

\* the 30 s timer of a queued getConnection that finds its entry
GiveUp(r) ==
  /\ route = "pooled"
  /\ reqs[r].pc = "queued"
  /\ LET p == reqs[r].qpool
     IN /\ r \in SeqToSet(pools[p].queue)
        /\ Commit([rejectGet([State EXCEPT !.pools[p].queue = Without(@, r)], r)
                     EXCEPT !.reqs[r] = NewReq])
  /\ UNCHANGED <<nextConn, nextReq, nframes, nfaults, route, delivered,
                 otherVars>>

\* ws.on('close') (part_003:110-113): the remote end closed the socket, or
\* the close() of the sweep completed
Closed(c) ==
  /\ route = "pooled"
  /\ conns[c].readyState \in {"OPEN", "CLOSING"}
  /\ Commit(removeConnection([State EXCEPT !.conns[c].readyState = "CLOSED"],
                             c, conns[c].pool))
  /\ UNCHANGED <<nextConn, nextReq, nframes, nfaults, route, delivered,
                 otherVars>>

\* the interval callback of cleanup(), every minute; no connection has been
\* idle beyond connectionTimeout
Sweep ==
  /\ route = "pooled"
  /\ Commit(cleanup(State, {}))
  /\ UNCHANGED <<nextConn, nextReq, nframes, nfaults, route, delivered,
                 otherVars>>

ReuseNext ==
  \/ \E r \in ReqIds : Borrow(r)
  \/ \E c \in ConnIds : Opened(c)
  \/ \E r \in ReqIds : Return(r)
  \/ \E r \in ReqIds : GiveUp(r)
  \/ \E c \in ConnIds : Closed(c)
  \/ Sweep

\* the interval timer keeps firing, a socket that is connecting opens, and
\* every request that holds a connection returns it
ReuseFair ==
  /\ WF_vars(Sweep)
  /\ \A c \in ConnIds : WF_vars(Opened(c))
  /\ \A r \in ReqIds : WF_vars(Return(r))

\* ---------------------------------------------------------- specification
DeltaIdle ==
  /\ tr = [ThinkingLastContent |-> <<>>, TextLastContent |-> <<>>,
           ThinkingStart |-> FALSE, ThinkingEnd |-> FALSE, output |-> <<>>]
  /\ cumul = [text |-> <<>>, thinking |-> <<>>]
  /\ deltas = [text |-> <<>>, thinking |-> <<>>]
  /\ nfed = 0
  /\ extends = TRUE
  /\ emitted = <<>>
  /\ heard = HeardNothing

\* no control-plane call made yet
CpIdle == [fn |-> "none", attempt |-> 0, phase |-> "idle", chatID |-> 0,
           RequestID |-> 0, thrown |-> <<>>,
           calls |-> <<>>, waits |-> <<>>, attempts |-> <<>>]

Init == PoolInit /\ DeltaIdle /\ cp = CpIdle /\ ParamIdle

BodySpec == Init /\ [][BodyNext]_vars
ReuseSpec == Init /\ [][ReuseNext]_vars /\ ReuseFair
NormSpec == Init /\ [][NormNext]_vars
EndSpec == Init /\ [][EndNext]_vars /\ EndFair
ParamSpec == Init /\ [][ParamNext]_vars
SendSpec == Init /\ [][SendNext]_vars

\* ------------------------------------------- the delta specification
\* One request's translator is fed update frames carrying one segment each,
\* with cumulative texts over a two-letter alphabet.
MaxLen == 2           \* length of a cumulative text
MaxFeeds == 3         \* update frames fed
Alphabet == {"a", "b"}
RECURSIVE StringsUpTo(_)
StringsUpTo(n) ==
  IF n = 0 THEN {<<>>}
  ELSE LET S == StringsUpTo(n - 1)
       IN S \cup {Append(x, ch) : x \in S, ch \in Alphabet}

IsPrefix(p, x) == Len(p) <= Len(x) /\ SubSeq(x, 1, Len(p)) = p
StripMarkers(x) == SelectSeq(x, LAMBDA ch : ch \notin {OpenMarker, CloseMarker})

\* the output of a frame whose single segment is of the given kind, every
\* character labelled with that kind
Labelled(out, kind) ==
  [i \in 1..Len(out) |->
     IF out[i] \in {OpenMarker, CloseMarker}
     THEN [kind |-> "marker", ch |-> out[i]]
     ELSE [kind |-> kind, ch |-> out[i]]]

\* a matching UPDATE_LAST_MESSAGE frame with the single segment (kind, t)
FeedUpdate(kind, t) ==
  /\ nfed < MaxFeeds
  /\ LET t1 == updateItems([tr EXCEPT !.output = <<>>], <<Item(kind, t)>>, 1)
     IN /\ tr' = t1
        /\ deltas' = [deltas EXCEPT ![kind] = @ \o StripMarkers(t1.output)]
        /\ emitted' = emitted \o Labelled(t1.output, kind)
  /\ cumul' = [cumul EXCEPT ![kind] = t]
  /\ extends' = (extends /\ IsPrefix(cumul[kind], t))
  /\ nfed' = nfed + 1
  /\ UNCHANGED <<poolVars, retryVars, paramVars, heard>>

DeltaNext == \E kind \in {"text", "thinking"}, t \in StringsUpTo(MaxLen) :
               FeedUpdate(kind, t)

DeltaSpec == Init /\ [][DeltaNext]_vars


\* ---------------------------------------- the control-plane specification
\* getChatID and sentRequest of one request (part_000:1346-1496), called one
\* after the other by the route (part_000:1528-1572).  cp.calls lists the
\* HTTP calls issued, cp.waits the back-off delays slept, cp.attempts the
\* outcome of every settled call.
maxRetries == 3       \* const maxRetries = 3

\* identifiers the upstream allocates for sessions and jobs
UpstreamIds == {1, 2}
\* how a call fails: success flag false in an HTTP-successful response, an
\* HTTP error status, or no response within the 30 s axios timeout
Failures == {"flag", "http", "timeout"}

\* a back-off that does not grow with the attempt
backoffDelayFixed(attempt) == 2

\* Math.pow(2, attempt) * 1000 ms, in seconds
backoffDelay(attempt) == 2 ^ attempt

\* a job submission that carries no session id
axiosCallNoSession(st, fn) ==
  [st EXCEPT !.calls = Append(@, [fn |-> fn, attempt |-> st.attempt,
                                  session |-> 0])]

\* the try block up to `await axios.put/post`: the payload of sentRequest
\* carries playground_session_id: req.chatID
axiosCall(st, fn) ==
  [st EXCEPT !.calls = Append(@, [fn |-> fn, attempt |-> st.attempt,
                                  session |-> IF fn = "sentRequest"
                                              THEN st.chatID ELSE 0])]

\* response.data.success is true: getChatID stores and returns the session
\* id and the route goes on to sentRequest; sentRequest returns the job id
onSuccess(st, id) ==
  LET st1 == [st EXCEPT !.attempts = Append(@, [fn |-> st.fn,
                           attempt |-> st.attempt, outcome |-> "ok", id |-> id])]
  IN IF st.fn = "getChatID"
     THEN axiosCall([st1 EXCEPT !.chatID = id, !.fn = "sentRequest",
                                !.attempt = 1], "sentRequest")
     ELSE [st1 EXCEPT !.RequestID = id, !.phase = "returned"]

\* a catch block in which a false success flag makes the function return
\* at once instead of throwing into the retry
onFailureFlagReturns(st, outcome) ==
  LET a == [fn |-> st.fn, attempt |-> st.attempt, outcome |-> outcome, id |-> 0]
      st1 == [st EXCEPT !.attempts = Append(@, a)]
  IN IF outcome = "flag" THEN [st1 EXCEPT !.phase = "returned"]
     ELSE IF st.attempt = maxRetries
     THEN [st1 EXCEPT !.phase = "thrown", !.thrown = <<a>>]
     ELSE [st1 EXCEPT !.phase = "backoff",
                      !.waits = Append(@, [fn |-> st.fn,
                                           secs |-> backoffDelay(st.attempt)])]

\* the catch block (part_000:1408-1417, 1485-1494); `throw new Error(...)` of
\* a false success flag lands in it like a rejected axios call
onFailure(st, outcome) ==
  LET a == [fn |-> st.fn, attempt |-> st.attempt, outcome |-> outcome, id |-> 0]
      st1 == [st EXCEPT !.attempts = Append(@, a)]
  IN IF st.attempt = maxRetries
     THEN [st1 EXCEPT !.phase = "thrown", !.thrown = <<a>>]
     ELSE [st1 EXCEPT !.phase = "backoff",
                      !.waits = Append(@, [fn |-> st.fn,
                                           secs |-> backoffDelay(st.attempt)])]

\* the route calls getChatID: attempt 1 is issued
CpStart ==
  /\ cp.phase = "idle"
  /\ cp' = axiosCall([cp EXCEPT !.fn = "getChatID", !.attempt = 1,
                                !.phase = "inflight"], "getChatID")
  /\ UNCHANGED <<poolVars, deltaVars, paramVars>>

\* the pending call is answered with success: true
CpSucceeds(id) ==
  /\ cp.phase = "inflight"
  /\ cp' = onSuccess(cp, id)
  /\ UNCHANGED <<poolVars, deltaVars, paramVars>>

\* the pending call fails
CpFails(outcome) ==
  /\ cp.phase = "inflight"
  /\ cp' = onFailure(cp, outcome)
  /\ UNCHANGED <<poolVars, deltaVars, paramVars>>

\* the back-off timer fires: the next attempt is issued
CpBackoffExpires ==
  /\ cp.phase = "backoff"
  /\ cp' = axiosCall([cp EXCEPT !.attempt = @ + 1, !.phase = "inflight"], cp.fn)
  /\ UNCHANGED <<poolVars, deltaVars, paramVars>>

RetryNext ==
  \/ CpStart
  \/ \E id \in UpstreamIds : CpSucceeds(id)
  \/ \E o \in Failures : CpFails(o)
  \/ CpBackoffExpires

RetrySpec == Init /\ [][RetryNext]_vars

Next ==
  \/ \E r \in ReqIds : StartRequest(r)
  \/ \E c \in ConnIds : WsOpen(c)
  \/ \E c \in ConnIds : ConnectTimeout(c)
  \/ \E r \in ReqIds : QueueTimeout(r)
  \/ \E r \in ReqIds, stream \in BOOLEAN : ChatIdOk(r, stream)
  \/ \E r \in ReqIds, s \in UpStatuses : ChatIdFail(r, s)
  \/ \E r \in ReqIds : SentOk(r)
  \/ \E r \in ReqIds, s \in UpStatuses : SentFail(r, s)
  \/ \E r \in ReqIds : RequestTimeout(r)
  \/ \E c \in ConnIds, rid \in {Malformed, NoId} \cup ReqIds, n \in FrameNames :
        \E ct \in FrameContents(n) : DeliverFrame(c, rid, n, ct)
  \/ \E c \in ConnIds : WsError(c)
  \/ \E c \in ConnIds : WsClose(c)
  \/ \E e \in SUBSET ConnIds : Cleanup(e)
  \/ \E r \in ReqIds, stream \in BOOLEAN : FixStart(r, stream)
  \/ \E c \in ConnIds : FixOpen(c)
  \/ \E c \in ConnIds : FixConnectTimeout(c)
  \/ \E r \in ReqIds : FixChatIdOk(r)
  \/ \E r \in ReqIds, s \in UpStatuses : FixChatIdFail(r, s)
  \/ \E r \in ReqIds : FixSentOk(r)
  \/ \E r \in ReqIds, s \in UpStatuses : FixSentFail(r, s)
  \/ \E c \in ConnIds, rid \in {Malformed, NoId} \cup ReqIds, n \in FrameNames :
        \E ct \in FrameContents(n) : FixFrame(c, rid, n, ct)
  \/ \E c \in ConnIds : FixWsError(c)
  \/ \E c \in ConnIds : FixWsClose(c)
  \/ \E r \in ReqIds : FixTimeout(r)

Spec == Init /\ [][Next]_vars

\* ------------------------------------------------------------ properties
Registered(c) == \E p \in PoolIds : c \in SeqToSet(pools[p].connections)
WasQueued(r) == reqs[r].qpool # 0
Served(r) == WasQueued(r) /\ reqs[r].ws # 0
Rejected(r) == WasQueued(r) /\ reqs[r].ws = 0 /\ reqs[r].pc = "done"
IsTerminal(tok) == tok.k \in {"json", "error", "DONE"}
Terminals(out) == Cardinality({i \in 1..Len(out) : IsTerminal(out[i])})

\* C1: a connection is borrowed by at most one request at a time: from the
\* moment it is given to a request until that request releases it, no other
\* request is given it.
C1_SingleBorrower ==
  \A r1, r2 \in ReqIds :
    (r1 # r2 /\ reqs[r1].holds # 0) => reqs[r1].holds # reqs[r2].holds

\* a connection released by one request is now borrowed by another
C1_Witness ==
  \E r1, r2 \in ReqIds :
    /\ r1 # r2
    /\ reqs[r1].releases > 0 /\ reqs[r1].holds = 0
    /\ reqs[r2].holds # 0 /\ reqs[r2].holds = reqs[r1].ws

\* C2: in every user pool activeCount equals the number of entries of the
\* connections map and is never negative.
C2_ActiveCountIsSize ==
  \A p \in PoolIds :
    /\ pools[p].activeCount = Len(pools[p].connections)
    /\ pools[p].activeCount = Cardinality(SeqToSet(pools[p].connections))
    /\ pools[p].activeCount >= 0

\* a connection went through two removals (sweep or error, then close) while
\* another one is still registered
C2_Witness ==
  \E c, d \in ConnIds :
    /\ conns[c].readyState = "CLOSED" /\ nfaults >= 2
    /\ Registered(d) /\ pools[conns[d].pool].activeCount = 1

\* C3: the bus connections of the identity, registered or still being
\* established, never exceed the per-identity cap.
C3_CapRespected ==
  Cardinality({c \in ConnIds : conns[c].readyState = "CONNECTING"
                               \/ Registered(c)}) <= maxConnections

\* C4: a hand-off serves the waiter that has been queued longest; requests
\* are numbered in the order of their getConnection calls.
C4_Fifo ==
  [][\A w \in ReqIds :
       (reqs[w].pc = "queued" /\ reqs'[w].pc = "chatid")
         => \A v \in ReqIds : reqs[v].pc = "queued" => w <= v]_vars

\* a waiter was served while a later one is still queued
C4_Witness ==
  \E w, v \in ReqIds : Served(w) /\ reqs[v].pc = "queued" /\ w < v

\* C5: a queued getConnection is settled exactly once: it is in the queue
\* exactly while unsettled and its timer is then pending; resolve and reject
\* are called once in total; once rejected it is never handed a connection
\* and once served it is never rejected.
C5_QueuedSettledOnce ==
  /\ [](\A r \in ReqIds :
          /\ WasQueued(r) => reqs[r].settles <= 1
          /\ reqs[r].pc = "queued" <=>
               (userPools # 0 /\ r \in SeqToSet(pools[userPools].queue))
          /\ reqs[r].pc = "queued" => reqs[r].qtimer /\ reqs[r].settles = 0
          /\ Rejected(r) => reqs[r].settles = 1 /\ Terminals(reqs[r].out) = 1)
  /\ [][\A r \in ReqIds :
          /\ Rejected(r) => Rejected(r)'
          /\ Served(r) => Served(r)' /\ reqs'[r].settles = 1]_vars

\* a waiter was served and its queue timer fired afterwards
C5_Witness ==
  \E r \in ReqIds : Served(r) /\ ~reqs[r].qtimer

\* C6: a release of an open connection adds one to its request count; with
\* a non-empty queue the head entry is removed and gets the connection, which
\* is busy after the step; with an empty queue the connection is not busy.
C6_ReleaseHandsOff ==
  [][\A r \in ReqIds :
       LET c == reqs[r].ws
           q == IF userPools = 0 THEN <<>> ELSE pools[userPools].queue
       IN (/\ reqs'[r].releases = reqs[r].releases + 1
           /\ c # 0
           /\ conns[c].readyState = "OPEN" /\ conns'[c].readyState = "OPEN")
          => /\ conns'[c].requestCount = conns[c].requestCount + 1
             /\ IF q # <<>>
                THEN /\ conns'[c].isInUse
                     /\ reqs'[Head(q)].ws = c /\ reqs'[Head(q)].holds = c
                     /\ reqs'[Head(q)].pc = "chatid"
                     /\ pools'[userPools'].queue = Tail(q)
                ELSE ~conns'[c].isInUse]_vars

\* a waiter holds a connection that served a request before
C6_Witness ==
  \E r \in ReqIds :
    /\ Served(r) /\ reqs[r].holds # 0
    /\ conns[reqs[r].holds].requestCount >= 1
    /\ conns[reqs[r].holds].isInUse

\* C7: once the matching completion frame was processed (however often it is
\* delivered) the request has produced exactly one terminal emission and the
\* completion made one releaseConnection call.
C7_CompletionEmitsOnce ==
  \A r \in ReqIds :
    reqs[r].isCompleted => Terminals(reqs[r].out) = 1 /\ reqs[r].releases >= 1

\* C8: the caller is sent at most one terminal event (a JSON body, a JSON
\* error, or the [DONE] sentinel), and nothing but the end of the response
\* follows it.
C8_OneTerminal ==
  \A r \in ReqIds :
    LET out == reqs[r].out
    IN /\ Terminals(out) <= 1
       /\ \A i \in 1..Len(out) :
            IsTerminal(out[i]) =>
              \A j \in (i + 1)..Len(out) : out[j] = [k |-> "END"]

\* the deadline already sent its terminal event when the completion frame
\* was processed
C8_Witness ==
  \E r \in ReqIds :
    /\ reqs[r].isCompleted /\ ~reqs[r].timer /\ Terminals(reqs[r].out) = 1
    /\ \E i \in 1..Len(reqs[r].out) :
         reqs[r].out[i].k \in {"inband", "error"}
         /\ reqs[r].out[i] # [k |-> "inband", type |-> "upstream_error"]
         /\ reqs[r].out[i] # [k |-> "error", status |-> 502, code |-> "empty_response"]

\* C9: a completion frame arriving with both accumulated texts empty fails
\* the request with HTTP 502 / empty_response and releases the connection.
C9_EmptyResponseFails ==
  \A r \in ReqIds :
    (/\ reqs[r].isCompleted
     /\ reqs[r].ThinkingLastContent = <<>> /\ reqs[r].TextLastContent = <<>>)
    => /\ reqs[r].releases >= 1
       /\ \E i \in 1..Len(reqs[r].out) :
            reqs[r].out[i] = [k |-> "error", status |-> 502,
                              code |-> "empty_response"]

\* C10 as stated: for every sequence of cumulative texts of one kind the
\* concatenated deltas equal the last text.
C10_DeltasRebuildLast ==
  \A kind \in {"text", "thinking"} : deltas[kind] = cumul[kind]

\* C10 amended: the concatenated deltas equal the last text when every text
\* fed began with the text fed before it.
C10_DeltasRebuildExtending ==
  extends => \A kind \in {"text", "thinking"} : deltas[kind] = cumul[kind]

\* three frames grew the answer text letter by letter
C10_Witness ==
  extends /\ nfed = MaxFeeds /\ Len(cumul.text) = 2 /\ Len(deltas.text) = 2
  /\ tr.TextLastContent = cumul.text

\* C11: in the pooled route with stream=true every non-empty delta computed
\* from a matching update frame is written as one chunk when it is computed,
\* and the matching completion frame appends the terminal chunk, the [DONE]
\* sentinel and the end of the response.
C11_StreamWritesAll ==
  [][\A r \in ReqIds :
       LET rq == reqs[r]
           d == ReplaceFirst(reqs'[r].TextLastContent, rq.TextLastContent)
       IN (route = "pooled" /\ rq.stream /\ rq.msgL /\ ~rq.ended)
          => /\ (reqs'[r].TextLastContent # rq.TextLastContent /\ d # <<>>)
                  => reqs'[r].out = Append(rq.out, [k |-> "chunk", content |-> d])
             /\ (~rq.isCompleted /\ reqs'[r].isCompleted
                 /\ rq.TextLastContent # <<>>)
                  => reqs'[r].out = rq.out \o <<[k |-> "final"], [k |-> "DONE"],
                                                [k |-> "END"]>>]_vars

\* C12: in the emitted text the opening marker precedes the first reasoning
\* character, no reasoning character follows the closing marker, and once
\* reasoning was emitted no answer character is emitted ahead of the closing
\* marker.
C12_MarkersEncloseReasoning ==
  LET open == [kind |-> "marker", ch |-> OpenMarker]
      close == [kind |-> "marker", ch |-> CloseMarker]
      n == Len(emitted)
  IN \A i \in 1..n :
       /\ emitted[i].kind = "thinking"
            => /\ \E j \in 1..(i - 1) : emitted[j] = open
               /\ \A j \in 1..(i - 1) : emitted[j] # close
       /\ (emitted[i].kind = "text"
           /\ \E j \in 1..(i - 1) : emitted[j].kind = "thinking")
            => \E j \in 1..(i - 1) : emitted[j] = close

\* C13: a delivered frame that is malformed, carries no correlation id or
\* carries another job's id leaves the request's accumulated texts, marker
\* flags and completed flag unchanged, writes nothing to its response,
\* releases nothing and leaves its listeners and its deadline in place.
C13_ForeignFrameIgnored ==
  [][\A r \in ReqIds :
       (delivered' # NoFrame /\ delivered' # r)
         => /\ TrOf(reqs'[r]) = TrOf(reqs[r])
            /\ reqs'[r].isCompleted = reqs[r].isCompleted
            /\ reqs'[r].out = reqs[r].out
            /\ reqs'[r].headersSent = reqs[r].headersSent
            /\ reqs'[r].ended = reqs[r].ended
            /\ reqs'[r].releases = reqs[r].releases
            /\ reqs'[r].msgL = reqs[r].msgL /\ reqs'[r].errL = reqs[r].errL
            /\ reqs'[r].timer = reqs[r].timer]_vars

\* a frame that is not the request's reached its bound message listener on
\* the only socket, after an update had been accumulated
C13_Witness ==
  \E r \in ReqIds :
    /\ delivered # NoFrame /\ delivered # r
    /\ reqs[r].msgL /\ reqs[r].TextLastContent # <<>>
    /\ nextConn = 1 /\ conns[1].readyState = "OPEN" /\ reqs[r].ws = 1

CallsOf(fn) == SelectSeq(cp.calls, LAMBDA c : c.fn = fn)
WaitsOf(fn) == SelectSeq(cp.waits, LAMBDA w : w.fn = fn)
AttemptsOf(fn) == SelectSeq(cp.attempts, LAMBDA a : a.fn = fn)
FailuresOf(fn) == SelectSeq(cp.attempts, LAMBDA a : a.fn = fn /\ a.outcome # "ok")
ControlFns == {"getChatID", "sentRequest"}

\* C14: getChatID and sentRequest each issue at most 3 attempts, numbered in
\* order; a failed attempt k < 3 is followed by one wait of 2^k seconds (2,
\* then 4) and then by attempt k+1; the first success ends the function with
\* no further attempt; the third failure throws the error of that attempt
\* with no third wait.
C14_RetryBackoff ==
  /\ [](\A fn \in ControlFns :
          LET cs == CallsOf(fn)
              ws == WaitsOf(fn)
              fs == FailuresOf(fn)
              as == AttemptsOf(fn)
          IN /\ Len(cs) <= maxRetries
             /\ \A i \in 1..Len(cs) : cs[i].attempt = i
             /\ \A i \in 1..Len(as) : as[i].attempt = i
             /\ \A i \in 1..Len(ws) : ws[i].secs = 2 ^ i
             /\ Len(ws) = IF Len(fs) = maxRetries THEN maxRetries - 1 ELSE Len(fs)
             /\ Len(cs) = IF cp.fn = fn /\ cp.phase = "backoff"
                          THEN Len(ws) ELSE IF Len(as) = 0 /\ cp.fn # fn THEN 0
                          ELSE Len(ws) + 1
             /\ \A i \in 1..Len(as) : as[i].outcome = "ok" => i = Len(as) /\ i = Len(cs)
             /\ (cp.phase = "thrown" /\ cp.fn = fn)
                  => /\ Len(fs) = maxRetries /\ Len(as) = maxRetries
                     /\ cp.thrown = <<fs[maxRetries]>>)
  /\ [][\A fn \in ControlFns :
          (\E i \in 1..Len(cp.attempts) :
              cp.attempts[i].fn = fn /\ cp.attempts[i].outcome = "ok")
          => CallsOf(fn)' = CallsOf(fn) /\ WaitsOf(fn)' = WaitsOf(fn)]_vars

\* sentRequest succeeded at its third attempt after getChatID had succeeded
\* at its third
C14_Witness ==
  /\ cp.phase = "returned"
  /\ Len(CallsOf("getChatID")) = maxRetries /\ Len(CallsOf("sentRequest")) = maxRetries
  /\ cp.waits = <<[fn |-> "getChatID", secs |-> 2], [fn |-> "getChatID", secs |-> 4],
                  [fn |-> "sentRequest", secs |-> 2], [fn |-> "sentRequest", secs |-> 4]>>

\* C15: every job-submission call carries the session id that a successful
\* create-session attempt of the same request returned; once getChatID has
\* thrown, no call is issued any more.
C15_SubmitAfterSession ==
  /\ [](/\ \A i \in 1..Len(cp.calls) :
             cp.calls[i].fn = "sentRequest"
               => /\ cp.calls[i].session # 0
                  /\ \E j \in 1..Len(cp.attempts) :
                       /\ cp.attempts[j].fn = "getChatID"
                       /\ cp.attempts[j].outcome = "ok"
                       /\ cp.attempts[j].id = cp.calls[i].session
        /\ Cardinality({j \in 1..Len(cp.attempts) :
                          cp.attempts[j].fn = "getChatID"
                          /\ cp.attempts[j].outcome = "ok"}) <= 1
        /\ (cp.phase = "thrown" /\ cp.fn = "getChatID")
             => CallsOf("sentRequest") = <<>>)
  /\ [][cp.phase = "thrown" => cp'.calls = cp.calls]_vars

\* the third job submission is in flight with the session id that the second
\* create-session attempt returned
C15_Witness ==
  /\ cp.fn = "sentRequest" /\ cp.phase = "inflight" /\ cp.attempt = maxRetries
  /\ Len(AttemptsOf("getChatID")) = 2
  /\ cp.calls[Len(cp.calls)].session = AttemptsOf("getChatID")[2].id

\* C16: a response whose success flag is false consumes the attempt it
\* answers and is followed by what follows a transport error: before the
\* third attempt the back-off of 2^k seconds and nothing else, at the third
\* attempt the throw of that error to the caller, with no wait and no call.
C16_FlagFailureRetried ==
  [][(/\ Len(cp'.attempts) = Len(cp.attempts) + 1
      /\ cp'.attempts[Len(cp'.attempts)].outcome = "flag")
     => LET a == cp'.attempts[Len(cp'.attempts)]
        IN /\ a.fn = cp.fn /\ a.attempt = cp.attempt
           /\ cp'.fn = cp.fn /\ cp'.attempt = cp.attempt
           /\ cp'.calls = cp.calls
           /\ IF cp.attempt = maxRetries
              THEN /\ cp'.phase = "thrown" /\ cp'.thrown = <<a>>
                   /\ cp'.waits = cp.waits
              ELSE /\ cp'.phase = "backoff" /\ cp'.thrown = <<>>
                   /\ cp'.waits = Append(cp.waits,
                                         [fn |-> cp.fn, secs |-> 2 ^ cp.attempt])]_vars

\* sentRequest threw the false-flag error of its third attempt after a
\* false flag at its first had been retried
C16_Witness ==
  /\ cp.phase = "thrown" /\ cp.fn = "sentRequest"
  /\ cp.thrown[1].outcome = "flag" /\ cp.thrown[1].attempt = maxRetries
  /\ FailuresOf("sentRequest")[1].outcome = "flag"
  /\ Len(WaitsOf("sentRequest")) = 2

\* the pooled request failed in getChatID or sentRequest
ControlPlaneFailed(r) == route = "pooled" /\ reqs[r].thrown # -1

\* C17: a pooled request whose getChatID or sentRequest threw has called
\* releaseConnection once and no longer holds the connection, has sent one
\* response, the error with the status of the thrown error (500 when it has
\* none), and has no message listener, error listener or deadline timer
\* attached, in every state from the failure on.
C17_ControlPlaneFailureCleansUp ==
  \A r \in ReqIds :
    ControlPlaneFailed(r)
      => /\ reqs[r].releases = 1 /\ reqs[r].holds = 0
         /\ reqs[r].out = <<[k |-> "error",
                             status |-> IF reqs[r].thrown = 0 THEN 500
                                        ELSE reqs[r].thrown,
                             code |-> IF reqs[r].thrown = 429
                                      THEN "rate_limit_exceeded"
                                      ELSE "server_error"]>>
         /\ reqs[r].ended
         /\ ~reqs[r].msgL /\ ~reqs[r].errL /\ ~reqs[r].timer

\* sentRequest failed with status 429 and the released connection went to a
\* waiter
C17_Witness ==
  \E r, w \in ReqIds :
    /\ ControlPlaneFailed(r) /\ reqs[r].chatID /\ reqs[r].thrown = 429
    /\ Served(w) /\ reqs[w].holds = reqs[r].ws

\* a number in (0,1], in hundredths
InUnit(x) == x.t = "number" /\ 0 < x.v /\ x.v <= 100
\* a number in [8192,16384]
InTokens(x) == x.t = "number" /\ 8192 <= x.v /\ x.v <= 16384
\* a number in [0.80,0.90], in hundredths
Substitute(x) == x.t = "number" /\ 80 <= x.v /\ x.v <= 90

\* C18: for every input body, processParameters returns temperature and top_p
\* in (0,1] and max_tokens in [8192,16384]; an in-range caller value is
\* returned unchanged, an absent or out-of-range temperature or top_p is
\* replaced by a value in [0.80,0.90], an absent or out-of-range max_tokens is
\* replaced by 16384; applying processParameters to its own result changes
\* nothing.
C18_NormalizedInRange ==
  np.passes >= 1 =>
    /\ \A k \in {"temperature", "top_p"} :
         /\ InUnit(Own(np.processed, k))
         /\ IF InUnit(Own(np.body, k))
            THEN Own(np.processed, k) = Own(np.body, k)
            ELSE Substitute(Own(np.processed, k))
    /\ InTokens(Own(np.processed, "max_tokens"))
    /\ IF InTokens(Own(np.body, "max_tokens"))
       THEN Own(np.processed, "max_tokens") = Own(np.body, "max_tokens")
       ELSE Own(np.processed, "max_tokens") = Num(16384)
    /\ np.passes = 2 => np.again = np.processed

\* the payload built last is for a model whose schema has thinking and
\* max_tokens
BudgetCase ==
  /\ pb.built > 0
  /\ {"thinking", "max_tokens"} \subseteq DOMAIN ModelMap0[pb.model]

C20_PayloadNamesAreSchemaNames ==
  (pb.built > 0 /\ pb.variant = "pooled") =>
    /\ DOMAIN pb.parameters = DOMAIN ModelMap0[pb.model]
    /\ DOMAIN pb.parameters \cap {"messages", "model", "stream"} = {}

\* C21: normalizing a request's parameters and merging them into the model
\* schema has no side effects: after any number of requests modelMap holds
\* the values it had at start-up, and the caller's request body is not
\* modified.
C21_MergeHasNoSideEffects ==
  /\ modelMap = ModelMap0
  /\ pb.built > 0 => pb.bodyAfter = pb.body

\* C22: every error reported to the caller, as a JSON error body or as an
\* in-band event of a streaming response, has the envelope
\* {error: {message, type, param, code}} with all four fields present.
C22_ErrorEnvelopeComplete ==
  \A r \in ReqIds : \A i \in 1..Len(reqs[r].out) :
    reqs[r].out[i].k \in {"error", "inband"}
      => ErrorFields(reqs[r].out[i]) = {"message", "type", "param", "code"}

\* C23: every error that occurs before the first output byte of a response
\* of the pooled route is returned as a JSON error body whose HTTP status is
\* one of 401, 403, 429, 502, 503 or 504.
C23_EarlyErrorStatus ==
  route = "pooled" =>
    \A r \in ReqIds :
      /\ \A i \in 1..Len(reqs[r].out) :
           reqs[r].out[i].k = "error"
             => reqs[r].out[i].status \in {401, 403, 429, 502, 503, 504}
      /\ (Rejected(r) \/ ControlPlaneFailed(r))
           => Len(reqs[r].out) = 1 /\ reqs[r].out[1].k = "error"

\* this step is a failure of streaming request r after bytes of its
\* response were sent: a timer expiry, socket failure or failed call that
\* changes the request, or the completion frame of an empty response
LateFailure(r) ==
  /\ reqs[r].stream /\ reqs[r].headersSent
  /\ ~reqs[r].ended /\ ~reqs[r].isCompleted
  /\ \/ nfaults' = nfaults + 1 /\ reqs'[r] # reqs[r]
     \/ /\ reqs'[r].isCompleted
        /\ reqs[r].ThinkingLastContent = <<>>
        /\ reqs[r].TextLastContent = <<>>

\* the response of r gains an in-band error event, [DONE] and its end
EndsInBand(r) ==
  LET n == Len(reqs[r].out)
  IN /\ Len(reqs'[r].out) = n + 3
     /\ SubSeq(reqs'[r].out, 1, n) = reqs[r].out
     /\ reqs'[r].out[n + 1].k = "inband"
     /\ reqs'[r].out[n + 2].k = "DONE"
     /\ reqs'[r].out[n + 3].k = "END"
     /\ reqs'[r].ended

\* C24: once any byte of a streaming response has been sent, every later
\* failure of that request (connection error, overall timeout, control-plane
\* failure, empty upstream response) is reported as an in-band error event
\* followed by the [DONE] sentinel and the end of the response.
C24_LateFailureInBand ==
  [][\A r \in ReqIds : LateFailure(r) => EndsInBand(r)]_vars

\* the deadline of r released its connection and detached its listeners
DeadlineCleansUp(r) ==
  LET c == reqs[r].ws
      queue == IF userPools = 0 THEN <<>> ELSE pools[userPools].queue
  IN /\ reqs'[r].releases = reqs[r].releases + 1 /\ reqs'[r].holds = 0
     /\ ~reqs'[r].msgL /\ ~reqs'[r].errL /\ ~reqs'[r].timer
     /\ conns[c].readyState = "OPEN"
          => /\ conns'[c].requestCount = conns[c].requestCount + 1
             /\ IF queue = <<>>
                THEN ~conns'[c].isInUse
                ELSE reqs'[Head(queue)].holds = c

\* C25: in the pooled chat handler, when the overall deadline expires before
\* the request reached a terminal state, the borrowed connection is released
\* to the pool, the request's message and error listeners are detached, and
\* a timeout error is surfaced to the caller: as HTTP 504 when nothing has
\* been sent yet, and in-band when streaming has already begun; when the
\* request already reached a terminal state the timer has no effect.
C25_DeadlineSurfacesTimeout ==
  [][\A r \in ReqIds :
       RequestTimeout(r) =>
         IF reqs[r].isCompleted \/ reqs[r].ended
         THEN /\ reqs' = [reqs EXCEPT ![r].timer = FALSE]
              /\ UNCHANGED <<userPools, pools, conns>>
         ELSE /\ DeadlineCleansUp(r)
              /\ IF reqs[r].headersSent
                 THEN EndsInBand(r)
                 ELSE reqs'[r].out =
                        <<[k |-> "error", status |-> 504,
                           code |-> "request_timeout"]>>]_vars

\* the connections a sweep has to remove: not busy, and transport-closed,
\* idle longer than the idle timeout or used more often than the cap
Reapable(expired) ==
  {c \in SeqToSet(pools[userPools].connections) :
     /\ ~conns[c].isInUse
     /\ \/ conns[c].readyState # "OPEN"
        \/ c \in expired
        \/ conns[c].requestCount > OverusedLimit}

\* C26: each cleanup sweep removes from the user pool exactly the
\* connections that are not busy and are transport-closed, idle longer than
\* the idle timeout, or have served more requests than the usage cap, and
\* closes the transport of a removed connection that is still open; a busy
\* connection is neither removed nor closed, and a not-busy connection
\* meeting none of the three conditions is kept.
C26_SweepRemovesExactlyReapable ==
  [][\A expired \in SUBSET ConnIds :
       Cleanup(expired) =>
         LET p == userPools
         IN /\ pools'[p].connections =
                 SelectSeq(pools[p].connections,
                           LAMBDA c : c \notin Reapable(expired))
            /\ \A c \in Reapable(expired) : conns'[c].readyState # "OPEN"
            /\ \A c \in ConnIds \ Reapable(expired) : conns'[c] = conns[c]]_vars

\* a sweep has closed and removed a connection used more often than the cap
C26_Witness ==
  \E c \in ConnIds :
    /\ conns[c].requestCount > OverusedLimit
    /\ conns[c].readyState = "CLOSING" /\ ~conns[c].isInUse
    /\ nfaults = 1 /\ userPools = 0
    /\ c \notin SeqToSet(pools[conns[c].pool].connections)

\* C27: after each cleanup sweep the index holds no identity whose user pool
\* has zero connections and an empty wait queue, and the sweep never drops
\* an identity that still has a registered connection or a queued waiter.
C27_SweepDropsExactlyEmpty ==
  [][\A expired \in SUBSET ConnIds :
       Cleanup(expired) =>
         LET p == userPools
             empty == pools'[p].connections = <<>> /\ pools'[p].queue = <<>>
         IN /\ userPools' \in {0, p}
            /\ userPools' = 0 <=> empty
            /\ pools'[p].queue = pools[p].queue]_vars

\* a sweep dropped the identity after its connection was closed by the
\* remote end
C27_Witness ==
  /\ userPools = 0 /\ nfaults = 2
  /\ \E c \in ConnIds : conns[c].readyState = "CLOSED" /\ conns[c].pool # 0

\* a connection whose transport failed or was closed is in no user pool
FailedIsUnregistered ==
  \A c \in ConnIds :
    conns[c].readyState \in {"CLOSING", "CLOSED"}
      => \A p \in PoolIds : c \notin SeqToSet(pools[p].connections)

\* no request comes to hold a connection whose transport has failed
FailedIsNeverHanded ==
  \A r \in ReqIds :
    (reqs'[r].holds # reqs[r].holds /\ reqs'[r].holds # 0)
      => conns[reqs'[r].holds].readyState \in {"NONE", "CONNECTING", "OPEN"}

\* the response of r gains an error, as a JSON body or in-band
SurfacesError(r) ==
  /\ Len(reqs'[r].out) > Len(reqs[r].out)
  /\ reqs'[r].out[Len(reqs[r].out) + 1].k \in {"error", "inband"}

\* C28: a pooled connection that raises an error while borrowed by a request
\* is removed from its user pool and is never afterwards returned by
\* getConnection nor handed to a queued waiter by releaseConnection; the
\* owning request surfaces the error to its caller and no replacement
\* connection is acquired for that request.
C28_ErroredConnectionIsGone ==
  /\ [](route = "pooled" => FailedIsUnregistered)
  /\ [][route = "pooled" =>
          /\ FailedIsNeverHanded
          /\ \A c \in ConnIds : \A r \in ReqIds :
               (WsError(c) /\ reqs[r].holds = c /\ conns[c].readyState = "OPEN")
                 => /\ SurfacesError(r)
                    /\ reqs'[r].ws = c /\ reqs'[r].holds = 0
                    /\ reqs'[r].pc \notin {"queued", "connecting"}]_vars

\* the content of the non-streaming body for the given reasoning text
BodyFor(reasoning) ==
  IF reasoning # <<>>
  THEN <<OpenMarker>> \o reasoning \o <<CloseMarker>> \o heard.text
  ELSE heard.text

\* the single response of a non-streaming request is the JSON body with
\* the given reasoning text, written at the completion frame and not before
NonStreamBody(reasoning) ==
  (reqs[1].pc = "listening" /\ ~reqs[1].stream) =>
    IF ~reqs[1].isCompleted THEN reqs[1].out = <<>>
    ELSE (heard.text # <<>> \/ heard.sole # <<>>)
           => reqs[1].out = <<[k |-> "json", content |-> BodyFor(reasoning)]>>

\* C29 (as stated): with stream not true, nothing is written to the response
\* while update frames arrive; at the matching completion frame with
\* non-empty content the single JSON body is the opening marker, the last
\* cumulative reasoning text, the closing marker and the last cumulative
\* answer text when the reasoning text is non-empty, and the last cumulative
\* answer text alone when it is empty.
C29_NonStreamBody == NonStreamBody(heard.thinking)

\* C29 (amended): the same, the reasoning text being the last one that
\* arrived as the only segment of its frame.
C29_NonStreamBodySoleReasoning == NonStreamBody(heard.sole)

\* the body of a completed non-streaming request wraps the reasoning text
\* "ab", which arrived alone, before the answer text "a"
C29_Witness ==
  /\ ~reqs[1].stream /\ reqs[1].isCompleted
  /\ heard.sole = <<"a", "b">> /\ heard.text = <<"a">>
  /\ reqs[1].out = <<[k |-> "json",
                      content |-> <<OpenMarker, "a", "b", CloseMarker, "a">>]>>

\* C30: a pooled connection whose request count has exceeded the usage cap
\* is eventually destroyed, as long as the sweep keeps running: it leaves OPEN
\* and the pool's connection map instead of being borrowed again and again
\* by findAvailableConnection or handed on by releaseConnection.
Overused(c) ==
  /\ conns[c].readyState = "OPEN"
  /\ conns[c].requestCount > OverusedLimit

Destroyed(c) ==
  /\ conns[c].readyState # "OPEN"
  /\ \A p \in PoolIds : c \notin SeqToSet(pools[p].connections)

C30_OverusedIsDestroyed ==
  \A c \in ConnIds : Overused(c) ~> Destroyed(c)

\* the places of marker m in the chunks written to request r: chunk, offset
MarkerPlaces(r, m) ==
  UNION {{<<i, j>> : j \in {k \in DOMAIN reqs[r].out[i].content :
                              reqs[r].out[i].content[k] = m}} :
         i \in {k \in DOMAIN reqs[r].out : reqs[r].out[k].k = "chunk"}}

Earlier(a, b) == a[1] < b[1] \/ (a[1] = b[1] /\ a[2] < b[2])

MarkersWellFormed(r) ==
  /\ Cardinality(MarkerPlaces(r, OpenMarker)) <= 1
  /\ Cardinality(MarkerPlaces(r, CloseMarker)) <= 1
  /\ \A b \in MarkerPlaces(r, CloseMarker) :
       \E a \in MarkerPlaces(r, OpenMarker) : Earlier(a, b)
  /\ reqs[r].ThinkingEnd => reqs[r].ThinkingStart

ReasoningState(r) == <<reqs[r].ThinkingStart, reqs[r].ThinkingLastContent>>

\* an update frame in which the reasoning segment is not alone
SharedFrame ==
  \E c \in ConnIds, ct \in BodyContents :
    /\ Len(ct) > 1
    /\ \/ BodyFrame(c, "UPDATE_LAST_MESSAGE", ct)
       \/ BodyFrameFix(c, "UPDATE_LAST_MESSAGE", ct)

\* C31: for every request and every sequence of matching update frames the
\* opening marker is emitted at most once and the closing marker at most
\* once, the closing marker only after the opening marker (reasoningClosed
\* implies reasoningOpened), and a reasoning segment changes the reasoning
\* state only when it is the sole segment of its frame.
C31_MarkersOnceAndSoleReasoning ==
  /\ [](\A r \in ReqIds : MarkersWellFormed(r))
  /\ [][SharedFrame => ReasoningState(1)' = ReasoningState(1)]_vars

\* a streamed response with both markers, the opening one first, after a
\* frame whose reasoning segment came together with an answer segment
C31_Witness ==
  /\ reqs[1].stream
  /\ MarkerPlaces(1, OpenMarker) # {} /\ MarkerPlaces(1, CloseMarker) # {}
  /\ heard.thinking # heard.sole
  /\ reqs[1].ThinkingLastContent = heard.sole

\* C32: the per-request deadline is armed at request start, before the first
\* suspension point: a request of the pooled route that waits in the pool
\* queue, is connecting, or is in (the retries of) getChatID or sentRequest
\* has its deadline timer pending.
C32_DeadlineArmedAtStart ==
  route = "pooled" =>
    \A r \in ReqIds :
      reqs[r].pc \in {"queued", "connecting", "chatid", "sending"}
        => reqs[r].timer

\* request r calls wsPool.releaseConnection in this step
CallsRelease(r) == reqs'[r].releases > reqs[r].releases

\* the connection of request r is held by a different request
HandedOn(r) ==
  \E q \in ReqIds \ {r} : reqs[q].holds # 0 /\ reqs[q].holds = reqs[r].ws

\* C33: in the pooled chat handler each request calls releaseConnection at
\* most once for the connection it borrowed, and never after that connection
\* has been handed to another request, whatever the combination of completion
\* frame, connection error and deadline expiry.
C33_ReleasedOnceBeforeHandOff ==
  /\ [](route = "pooled" => \A r \in ReqIds : reqs[r].releases <= 1)
  /\ [][route = "pooled" =>
          \A r \in ReqIds : CallsRelease(r) => ~HandedOn(r)]_vars

\* C34: every open connection produced by createConnection is registered in
\* the user pool that the top-level index holds for its identity, also when
\* a sweep dropped the identity's empty user pool while the connection was
\* being established.
C34_OpenIsRegisteredInIndex ==
  route = "pooled" =>
    \A c \in ConnIds :
      conns[c].readyState = "OPEN" =>
        IF userPools = 0 THEN FALSE
        ELSE c \in SeqToSet(pools[userPools].connections)

\* the bus delivers a frame of job rid on the connection request rid holds
OwnFrame(rid) ==
  \E c \in ConnIds, n \in FrameNames :
    \E ct \in FrameContents(n) :
      /\ reqs[rid].holds = c
      /\ DeliverFrame(c, rid, n, ct)

\* C35: no frame of a request is lost to the ordering of asynchronous events:
\* every frame with the request's correlation id that the bus delivers on the
\* borrowed connection after the job was submitted is processed by the
\* request's message handler, also when it arrives before the job-submission
\* response has returned the id and before the handler is attached.
C35_NoFrameLost ==
  [][\A rid \in ReqIds : OwnFrame(rid) => delivered' = rid]_vars

\* C36: in every reachable state of a user pool a non-empty wait queue
\* implies that the identity is at its cap (activeCount >= maxConnections)
\* and that all its connections are busy: a waiter never stays queued while
\* the identity has spare capacity.
C36_QueuedOnlyAtCap ==
  \A p \in PoolIds :
    Len(pools[p].queue) > 0 =>
      /\ pools[p].activeCount >= maxConnections
      /\ \A c \in SeqToSet(pools[p].connections) : conns[c].isInUse

\* the concatenated content of the streaming chunks in out
RECURSIVE ChunkText(_)
ChunkText(out) ==
  IF out = <<>> THEN <<>>
  ELSE IF Head(out).k = "chunk" THEN Head(out).content \o ChunkText(Tail(out))
  ELSE ChunkText(Tail(out))

\* C37: for the same sequence of matching frames ending in a completion
\* frame, the concatenated content of all streaming chunks equals the content
\* of the single non-streaming response body: same text, same marker
\* positions.
C37_StreamEqualsBody ==
  (reqs[1].stream /\ reqs[1].isCompleted
   /\ (heard.text # <<>> \/ heard.sole # <<>>))
    => ChunkText(reqs[1].out) = BodyFor(heard.sole)

SamplingNames == {"temperature", "top_p", "max_tokens"}

\* C38: for one request the sampling parameters (temperature, top_p,
\* max_tokens) sent in the create-session payload equal those sent in the
\* job-submission payload and are the same on every retry of each call, also
\* when the caller omitted them or gave out-of-range values and the
\* normalizer generated them.
C38_SamplingParametersStable ==
  [][\A r1 \in Randoms, r2 \in Randoms :
       NextSend(r1, r2) =>
         \A k \in SamplingNames :
           Own(pb'.parameters, k) = Own(pb.parameters, k)]_vars

\* the response of request r has its terminal part and is ended
Answered(r) ==
  /\ reqs[r].ended
  /\ \E i \in DOMAIN reqs[r].out : IsTerminal(reqs[r].out[i])

\* C39: every request that obtained a connection eventually receives a
\* terminal response and has its response ended (final JSON, JSON error, or
\* [DONE] followed by end), assuming timers fire; in the pooled chat handler
\* also in streaming mode, after a completion frame, a connection error or a
\* deadline expiry that occurs once the first chunk has been written.
C39_EveryRequestIsAnswered ==
  (route = "pooled" /\ reqs[1].ws # 0) ~> Answered(1)

====
